---- MODULE Spec2Model ----
(***************************************************************************)
(* A model of the flax per-worker reactor: the connection slab             *)
(* (balancer/connection_pool.rs), the completion handlers                  *)
(* (balancer/handlers.rs), the submission helpers (balancer/uring_ops.rs), *)
(* the dispatch loop (balancer/worker.rs), the idle backend cache          *)
(* (backend/connection_cache.rs), the backend registry (backend/pool.rs),  *)
(* the header peek parser (protocol/http1.rs) and the completion tag       *)
(* codec (core/user_data.rs).                                              *)
(*                                                                         *)
(* Ids are 0-based as in the source; slot id lives at pairs[id + 1].       *)
(* An Option<T> is a sequence of length 0 (None) or 1 (Some).              *)
(* Bytes are their ASCII codes.                                            *)
(***************************************************************************)
EXTENDS Integers, Sequences, FiniteSets, Bags, TLC

VARIABLES
    pairs,      \* ConnectionPool.pairs : Vec<Option<ConnectionPair>>
    freelist,   \* ConnectionPool.freelist : VecDeque<usize>
    cache,      \* BackendConnectionCache.map : address -> deque of descriptors
    ring,       \* submissions whose completion has not been handled (a bag)
    counter,    \* BackendPool.counter
    backends,   \* BackendPool.backends
    socks,      \* the kernel's sockets, indexed by descriptor number
    fdOpen,     \* descriptors of the process that are open
    panicked,   \* the worker thread has panicked
    initialized, \* POOL : OnceLock<BackendPool> has been set
    rwlock,     \* BackendPool.backends : the RwLock, who holds it
    threads,    \* the threads that call the registry: where each one is
    observed    \* the last call made on a function by itself: what it was
                \* given and what it returned

vars == <<pairs, freelist, cache, ring, counter, backends, socks, fdOpen,
          panicked, initialized, rwlock, threads, observed>>

\* the variables of the registry's callers
regvars == <<initialized, rwlock, threads, observed>>

----------------------------------------------------------------------------
(* Bounds of the model.                                                    *)

\* the slab grows to at most this many slots
MaxSlab == 2
\* descriptors the kernel hands out in one run (never renumbered)
MaxFd == 5
\* the width of a completion tag in bits (64 in the code): 8 bits of
\* opcode and direction, the rest the id
TagBits == 12
\* the largest WorkerConfig.ring_size a worker is started with
MaxRingSize == 2
\* WorkerConfig.initial_accepts of the modelled worker
InitialAccepts == 1
\* WorkerConfig.io_buffer_capacity of the modelled worker
IoCap == 2
\* WorkerConfig.header_buffer_capacity of the modelled worker
HdrCap == 20
\* AtomicUsize is modelled as a word of this many bits
CounterBits == 3
\* threads that call the registry concurrently
MaxThreads == 2
\* the registry's list grows to at most this many entries
MaxBackends == 3
\* descriptors returned to the idle cache after the ones it starts with
MaxReturns == 3

----------------------------------------------------------------------------
(* Bytes and byte strings.                                                 *)

CR == 13
LF == 10
SP == 32
HT == 9
COLON == 58
COMMA == 44

Min(a, b) == IF a < b THEN a ELSE b

Range(s) == {s[i] : i \in 1..Len(s)}

\* s[from..to) with 0-based offsets, as a Rust slice
Slice(s, from, to) == [i \in 1..(to - from) |-> s[from + i]]

Zeros(n) == [i \in 1..n |-> 0]

\* dst with src copied in at 0-based offset off (bytes past the end are dropped)
Overlay(dst, off, src) ==
    [i \in 1..Len(dst) |->
        IF i > off /\ i <= off + Len(src) THEN src[i - off] ELSE dst[i]]

\* the last occurrence, or -1
FindLast(hay, needle) ==
    LET n == Len(needle)
        hits == {p \in 0..(Len(hay) - n) : Slice(hay, p, p + n) = needle}
    IN IF hits = {} THEN -1 ELSE CHOOSE p \in hits : \A q \in hits : p >= q

\* memmem::find : 0-based position of the first occurrence, or -1
Find(hay, needle) ==
    LET n == Len(needle)
        hits == {p \in 0..(Len(hay) - n) : Slice(hay, p, p + n) = needle}
    IN IF hits = {} THEN -1 ELSE CHOOSE p \in hits : \A q \in hits : p <= q

\* slice::iter().position(|b| b == x) : 0-based, or -1
Position(s, x) == Find(s, <<x>>)

ToLower(b) == IF b >= 65 /\ b <= 90 THEN b + 32 ELSE b

ascii_equals_ignore_case(a, b) ==
    /\ Len(a) = Len(b)
    /\ \A i \in 1..Len(a) : ToLower(a[i]) = ToLower(b[i])

RECURSIVE TrimLeft(_)
TrimLeft(bytes) ==
    IF Len(bytes) > 0 /\ (bytes[1] = SP \/ bytes[1] = HT)
    THEN TrimLeft(Tail(bytes)) ELSE bytes

RECURSIVE TrimRight(_)
TrimRight(bytes) ==
    IF Len(bytes) > 0 /\ (bytes[Len(bytes)] = SP \/ bytes[Len(bytes)] = HT)
    THEN TrimRight(SubSeq(bytes, 1, Len(bytes) - 1)) ELSE bytes

trim_ascii_whitespace(bytes) == TrimRight(TrimLeft(bytes))

\* Option<usize> as a sequence: <<>> for None, <<v>> for Some(v)
RECURSIVE ParseDigits(_, _)
ParseDigits(bytes, value) ==
    IF bytes = <<>> THEN <<value>>
    ELSE IF bytes[1] < 48 \/ bytes[1] > 57 THEN <<>>
    ELSE ParseDigits(Tail(bytes), value * 10 + (bytes[1] - 48))

parse_usize_decimal_strict(input) == ParseDigits(trim_ascii_whitespace(input), 0)

\* slice::split(|b| b == sep) : the fields, at least one
RECURSIVE Split(_, _)
Split(s, sep) ==
    LET p == Position(s, sep)
    IN IF p < 0 THEN <<s>>
       ELSE <<Slice(s, 0, p)>> \o Split(Slice(s, p + 1, Len(s)), sep)

NameHost == <<104, 111, 115, 116>>
NameContentLength ==
    <<99, 111, 110, 116, 101, 110, 116, 45, 108, 101, 110, 103, 116, 104>>
NameTransferEncoding ==
    <<116, 114, 97, 110, 115, 102, 101, 114, 45,
      101, 110, 99, 111, 100, 105, 110, 103>>
TokenChunked == <<99, 104, 117, 110, 107, 101, 100>>

\* The header loop of peek_request_headers: the lines of h from line_start on.
RECURSIVE HeaderLoop(_, _, _)
HeaderLoop(h, line_start, acc) ==
    IF line_start >= Len(h) THEN acc
    ELSE
        LET rel == Find(Slice(h, line_start, Len(h)), <<CR, LF>>)
            line_end == IF rel >= 0 THEN line_start + rel ELSE Len(h)
            header_line == Slice(h, line_start, line_end)
            colon_index == Position(header_line, COLON)
            raw_name == Slice(header_line, 0, colon_index)
            value == trim_ascii_whitespace(
                         Slice(header_line, colon_index + 1, Len(header_line)))
            acc1 ==
                IF colon_index < 0 THEN acc
                ELSE IF ascii_equals_ignore_case(raw_name, NameHost)
                THEN (IF value # <<>> THEN [acc EXCEPT !.host = <<value>>] ELSE acc)
                ELSE IF ascii_equals_ignore_case(raw_name, NameContentLength)
                THEN [acc EXCEPT !.content_length = parse_usize_decimal_strict(value)]
                ELSE IF ascii_equals_ignore_case(raw_name, NameTransferEncoding)
                THEN (IF \E t \in Range(Split(value, COMMA)) :
                            ascii_equals_ignore_case(trim_ascii_whitespace(t),
                                                     TokenChunked)
                      THEN [acc EXCEPT !.chunked = TRUE] ELSE acc)
                ELSE acc
        IN HeaderLoop(h, line_end + 2, acc1)

Incomplete == [kind |-> "Incomplete", host |-> <<>>, content_length |-> <<>>,
               chunked |-> FALSE, header_block_end_index |-> 0]
Malformed == [Incomplete EXCEPT !.kind = "Malformed"]

\* a parser that takes the last CRLFCRLF of the window for the end of the
\* header block
peek_up_to_last_marker(request_window) ==
    LET crlf_crlf_position == FindLast(request_window, <<CR, LF, CR, LF>>)
        h == Slice(request_window, 0, crlf_crlf_position)
        request_line_end_rel == Find(h, <<CR, LF>>)
        request_line == Slice(h, 0, request_line_end_rel)
        fields == Split(request_line, SP)
    IN IF crlf_crlf_position < 0 THEN Incomplete
       ELSE IF request_line_end_rel < 0 THEN Malformed
       ELSE IF Len(fields) < 3 THEN Malformed
       ELSE IF fields[1] = <<>> \/ Len(fields[3]) < 8 THEN Malformed
       ELSE HeaderLoop(h, request_line_end_rel + 2,
                [kind |-> "Complete", host |-> <<>>, content_length |-> <<>>,
                 chunked |-> FALSE,
                 header_block_end_index |-> crlf_crlf_position + 4])

\* peek_request_headers: Err("Incomplete message"), any other Err, or Ok(meta)
peek_request_headers(request_window) ==
    LET crlf_crlf_position == Find(request_window, <<CR, LF, CR, LF>>)
        h == Slice(request_window, 0, crlf_crlf_position)
        request_line_end_rel == Find(h, <<CR, LF>>)
        request_line == Slice(h, 0, request_line_end_rel)
        fields == Split(request_line, SP)
    IN IF crlf_crlf_position < 0 THEN Incomplete
       ELSE IF request_line_end_rel < 0 THEN Malformed
       ELSE IF Len(fields) < 3 THEN Malformed
       ELSE IF fields[1] = <<>> \/ Len(fields[3]) < 8 THEN Malformed
       ELSE HeaderLoop(h, request_line_end_rel + 2,
                [kind |-> "Complete", host |-> <<>>, content_length |-> <<>>,
                 chunked |-> FALSE,
                 header_block_end_index |-> crlf_crlf_position + 4])

----------------------------------------------------------------------------
(* The completion tag codec (core/user_data.rs).                           *)

OPCODE_BITS == 7
DIR_BITS == 1

OpCodeOf(name) ==
    CASE name = "Accept" -> 1
      [] name = "ConnectBackend" -> 2
      [] name = "Recv" -> 3
      [] name = "Send" -> 4
      [] name = "Timeout" -> 5
      [] name = "RecvHeaders" -> 6

ClientToBackend == 0
BackendToClient == 1

Op(name, dir) == [name |-> name, dir |-> dir]

\* ID_BITS = 64 - (OPCODE_BITS + DIR_BITS), with the tag's 64 bits scaled
\* to TagBits
ID_BITS == TagBits - (OPCODE_BITS + DIR_BITS)

\* a pack that leaves the direction bit out of the tag
pack_without_direction(pair_id, op) ==
    (pair_id % 2^ID_BITS) * 2^(OPCODE_BITS + DIR_BITS)
        + (OpCodeOf(op.name) % 2^OPCODE_BITS)

\* ((id & ID_MASK) << ID_SHIFT) | ((dir_bit & DIR_MASK) << DIR_SHIFT)
\*     | (opcode & OPCODE_MASK)
pack_user_data(pair_id, op) ==
    (pair_id % 2^ID_BITS) * 2^(OPCODE_BITS + DIR_BITS)
        + (op.dir % 2^DIR_BITS) * 2^OPCODE_BITS
        + (OpCodeOf(op.name) % 2^OPCODE_BITS)

unpack_user_data(tag) ==
    LET id == (tag \div 2^(OPCODE_BITS + DIR_BITS)) % 2^ID_BITS
        dir == (tag \div 2^OPCODE_BITS) % 2^DIR_BITS
        opc == tag % 2^OPCODE_BITS
        op == CASE opc = 1 -> Op("Accept", 0)
                [] opc = 2 -> Op("ConnectBackend", 0)
                [] opc = 3 -> Op("Recv", dir)
                [] opc = 4 -> Op("Send", dir)
                [] opc = 5 -> Op("Timeout", dir)
                [] opc = 6 -> Op("RecvHeaders", 0)
                [] OTHER -> Op("Accept", 0)
    IN [id |-> id, op |-> op]

----------------------------------------------------------------------------
(* The ring.  A submission is the tag the code packs, the descriptor and   *)
(* the buffer range it names, and for a send the bytes at that range.      *)
(* stale records that the record that made the submission has left its     *)
(* slot: the buffer the submission points into has been dropped.           *)

Sqe(tag, fd, off, len, data) ==
    [tag |-> tag, fd |-> fd, off |-> off, len |-> len, data |-> data,
     stale |-> FALSE]

Push(s, sqe) == [s EXCEPT !.ring = @ (+) SetToBag({sqe})]

Copies(b, e) == IF e \in DOMAIN b THEN b[e] ELSE 0

MarkStale(b, id) ==
    LET mark(e) == IF unpack_user_data(e.tag).id = id
                   THEN [e EXCEPT !.stale = TRUE] ELSE e
        fresh(e) == [e EXCEPT !.stale = FALSE]
    IN [x \in {mark(e) : e \in DOMAIN b} |->
            IF unpack_user_data(x.tag).id = id
            THEN Copies(b, x) + Copies(b, fresh(x))
            ELSE b[x]]

----------------------------------------------------------------------------
(* util/fd.rs                                                              *)

\* close(2); closing a descriptor that is not open reports EBADF and does
\* nothing: ebadf keeps the descriptors a handler got that answer for
close_fd_quiet(s, fd) ==
    IF fd \in s.fdOpen THEN [s EXCEPT !.fdOpen = @ \ {fd}]
    ELSE [s EXCEPT !.ebadf = @ \cup {fd}]

----------------------------------------------------------------------------
(* core/stream_pump.rs, protocol/http1.rs (HttpBuf), core/connection_pair.rs *)

StreamPump_new(read_fd, write_fd, buffer_capacity) ==
    [read_fd |-> read_fd, write_fd |-> write_fd,
     buffer |-> Zeros(buffer_capacity),
     bytes_ready_to_send |-> 0, bytes_already_sent |-> 0,
     recv_in_flight |-> FALSE, send_in_flight |-> FALSE]

\* is_idle that does not look at recv_in_flight
is_idle_but_receiving(pump) ==
    ~pump.send_in_flight /\ pump.bytes_ready_to_send = 0

is_idle(pump) ==
    ~pump.recv_in_flight /\ ~pump.send_in_flight /\ pump.bytes_ready_to_send = 0

reset_buffer(pump) ==
    [pump EXCEPT !.bytes_ready_to_send = 0, !.bytes_already_sent = 0]

HttpBuf_with_capacity(cap) == [buf |-> Zeros(cap), start |-> 0, end |-> 0]

wrote(hb, n) == [hb EXCEPT !.end = @ + n]

window(hb) == Slice(hb.buf, hb.start, hb.end)

\* HttpBuf::drain takes the buffer and its cursors out of the header buffer
drain(hb) == [buf |-> <<>>, start |-> 0, end |-> 0]

\* HttpBuf::replace_buffer installs a buffer with nothing in it
replace_buffer(hb, new_buf) == [buf |-> new_buf, start |-> 0, end |-> 0]

new_with_client(id, client_fd, io_buffer_capacity, header_buffer_capacity) ==
    [id |-> id, client_fd |-> client_fd, backend_fd |-> -1,
     backend_address |-> <<>>, backend_sockaddr_len |-> 0,
     header_buffer |-> HttpBuf_with_capacity(header_buffer_capacity),
     pump_client_to_backend |-> StreamPump_new(client_fd, -1, io_buffer_capacity),
     pump_backend_to_client |-> StreamPump_new(-1, client_fd, io_buffer_capacity),
     request_content_length |-> <<>>,
     request_transfer_encoding_chunked |-> FALSE,
     had_error |-> FALSE]

attach_backend_socket(p, backend_fd) ==
    [p EXCEPT !.backend_fd = backend_fd,
              !.pump_client_to_backend.write_fd = backend_fd,
              !.pump_backend_to_client.read_fd = backend_fd]

SOCKADDR_IN_LEN == 16

set_backend_sockaddr(p, len) == [p EXCEPT !.backend_sockaddr_len = len]

start_streaming(p) ==
    [p EXCEPT !.pump_client_to_backend.read_fd = p.client_fd,
              !.pump_client_to_backend.write_fd = p.backend_fd,
              !.pump_backend_to_client.read_fd = p.backend_fd,
              !.pump_backend_to_client.write_fd = p.client_fd]

----------------------------------------------------------------------------
(* balancer/connection_pool.rs                                             *)

Occupied(ps, id) == id >= 0 /\ id < Len(ps) /\ ps[id + 1] # <<>>

\* ConnectionPool::get_mut(id), for an occupied slot
Pair(s, id) == s.pairs[id + 1][1]

SetPair(s, id, p) == [s EXCEPT !.pairs[id + 1] = <<p>>]

\* ConnectionPool::alloc : the state after it, and the id it returns
\* an alloc that hands out the last slot again when the free-list is empty
alloc_last_slot(s) ==
    IF s.freelist # <<>>
    THEN [st |-> [s EXCEPT !.freelist = Tail(@)], id |-> Head(s.freelist)]
    ELSE IF s.pairs = <<>>
    THEN [st |-> [s EXCEPT !.pairs = Append(@, <<>>)], id |-> 0]
    ELSE [st |-> s, id |-> Len(s.pairs) - 1]

alloc(s) ==
    IF s.freelist # <<>>
    THEN [st |-> [s EXCEPT !.freelist = Tail(@)], id |-> Head(s.freelist)]
    ELSE [st |-> [s EXCEPT !.pairs = Append(@, <<>>)], id |-> Len(s.pairs)]

ensure_slot(s, id, client_fd) ==
    LET grown == IF id >= Len(s.pairs)
                 THEN s.pairs \o [i \in 1..(id + 1 - Len(s.pairs)) |-> <<>>]
                 ELSE s.pairs
    IN [s EXCEPT !.pairs =
            [grown EXCEPT ![id + 1] = <<new_with_client(id, client_fd, IoCap, HdrCap)>>]]

Vacate(s, id) ==
    [s EXCEPT !.pairs[id + 1] = <<>>, !.ring = MarkStale(@, id)]

\* teardown without the take(): the descriptors are closed and the id is
\* returned while the record stays in its slot
teardown_without_take(s, id) ==
    IF Occupied(s.pairs, id)
    THEN LET p == Pair(s, id)
             s2 == IF p.client_fd >= 0 THEN close_fd_quiet(s, p.client_fd) ELSE s
             s3 == IF p.backend_fd >= 0 THEN close_fd_quiet(s2, p.backend_fd) ELSE s2
         IN [s3 EXCEPT !.freelist = Append(@, id)]
    ELSE s

\* teardown that returns the id whatever it finds in the slot
teardown_returning_any_id(s, id) ==
    IF Occupied(s.pairs, id)
    THEN LET p == Pair(s, id)
             s1 == Vacate(s, id)
             s2 == IF p.client_fd >= 0 THEN close_fd_quiet(s1, p.client_fd) ELSE s1
             s3 == IF p.backend_fd >= 0 THEN close_fd_quiet(s2, p.backend_fd) ELSE s2
         IN [s3 EXCEPT !.freelist = Append(@, id)]
    ELSE [s EXCEPT !.freelist = Append(@, id)]

teardown(s, id) ==
    IF Occupied(s.pairs, id)
    THEN LET p == Pair(s, id)
             s1 == Vacate(s, id)
             s2 == IF p.client_fd >= 0 THEN close_fd_quiet(s1, p.client_fd) ELSE s1
             s3 == IF p.backend_fd >= 0 THEN close_fd_quiet(s2, p.backend_fd) ELSE s2
         IN [s3 EXCEPT !.freelist = Append(@, id)]
    ELSE s

recycle_slot_only(s, id) ==
    IF Occupied(s.pairs, id)
    THEN LET p == Pair(s, id)
             s1 == Vacate(s, id)
         IN IF p.client_fd >= 0 THEN close_fd_quiet(s1, p.client_fd) ELSE s1
    ELSE s

----------------------------------------------------------------------------
(* backend/connection_cache.rs                                             *)

MAX_CACHED == 200

Cached(c, addr) == IF addr \in DOMAIN c THEN c[addr] ELSE <<>>

\* a borrow that pops the back of the deque
borrow_newest(s, addr) ==
    IF addr \in DOMAIN s.cache /\ s.cache[addr] # <<>>
    THEN [st |-> [s EXCEPT !.cache[addr] = SubSeq(@, 1, Len(@) - 1)],
          fd |-> <<s.cache[addr][Len(s.cache[addr])]>>]
    ELSE [st |-> s, fd |-> <<>>]

\* borrow_connection : the state after it, and Option<RawFd>
borrow_connection(s, addr) ==
    IF addr \in DOMAIN s.cache /\ s.cache[addr] # <<>>
    THEN [st |-> [s EXCEPT !.cache[addr] = Tail(@)], fd |-> <<Head(s.cache[addr])>>]
    ELSE [st |-> s, fd |-> <<>>]

\* a return that lets the deque reach MAX_CACHED + 1
return_connection_one_more(s, addr, fd) ==
    LET deque == Cached(s.cache, addr)
        entered == [a \in DOMAIN s.cache \cup {addr} |-> Cached(s.cache, a)]
    IN IF Len(deque) <= MAX_CACHED
       THEN [s EXCEPT !.cache = [entered EXCEPT ![addr] = Append(deque, fd)]]
       ELSE close_fd_quiet([s EXCEPT !.cache = entered], fd)

return_connection(s, addr, fd) ==
    LET deque == Cached(s.cache, addr)
        entered == [a \in DOMAIN s.cache \cup {addr} |-> Cached(s.cache, a)]
    IN IF Len(deque) < MAX_CACHED
       THEN [s EXCEPT !.cache = [entered EXCEPT ![addr] = Append(deque, fd)]]
       ELSE close_fd_quiet([s EXCEPT !.cache = entered], fd)

----------------------------------------------------------------------------
(* backend/pool.rs                                                         *)

FALLBACK_PORT == 8081

\* a fetch_add that adds two
fetch_add_two(c) == [old |-> c, new |-> (c + 2) % (2 ^ CounterBits)]

\* a fetch_add whose sum leaves the word
fetch_add_unwrapped(c) == [old |-> c, new |-> c + 1]

\* AtomicUsize::fetch_add(1, Relaxed): the value before, and the wrapped sum
fetch_add(c) == [old |-> c, new |-> (c + 1) % (2 ^ CounterBits)]

\* fetch_add(..) % backends.len()
slot_index(k, n) == k % n

\* BackendPool::select under the read lock: the state after it, and Option<addr>
select(s) ==
    IF s.backends = <<>>
    THEN [st |-> s, addr |-> <<>>]
    ELSE LET f == fetch_add(s.counter)
         IN [st |-> [s EXCEPT !.counter = f.new],
             addr |-> <<s.backends[slot_index(f.old, Len(s.backends)) + 1]>>]

\* select_backend with another address for the empty registry
select_backend_elsewhere(s) ==
    LET r == select(s)
    IN [st |-> r.st, addr |-> IF r.addr = <<>> THEN FALLBACK_PORT + 1 ELSE r.addr[1]]

select_backend(s) ==
    LET r == select(s)
    IN [st |-> r.st, addr |-> IF r.addr = <<>> THEN FALLBACK_PORT ELSE r.addr[1]]

\* RwLock::read() returns once no writer holds the lock
can_read(l) == l.writer = {}

\* a write lock that is granted while readers hold the lock
can_write_over_readers(l) == l.writer = {}

\* RwLock::write() returns once nobody holds the lock
can_write(l) == l.writer = {} /\ l.readers = {}

\* add_backend, inside the write lock
add_backend(L, a) == Append(L, a)

\* backends.iter().position(|b| b.address == address), as an Option
first_position(L, a) ==
    LET hits == {i \in 1..Len(L) : L[i] = a}
    IN IF hits = {} THEN <<>>
       ELSE <<CHOOSE i \in hits : \A j \in hits : i <= j>>

\* a remove that drops every entry equal to a
remove_every(L, a) ==
    [list |-> SelectSeq(L, LAMBDA x : x # a), found |-> \E i \in 1..Len(L) : L[i] = a]

\* remove_backend, inside the write lock: the list after it, and the bool
remove_backend(L, a) ==
    LET pos == first_position(L, a)
    IN IF pos = <<>> THEN [list |-> L, found |-> FALSE]
       ELSE [list |-> SubSeq(L, 1, pos[1] - 1) \o SubSeq(L, pos[1] + 1, Len(L)),
             found |-> TRUE]

clear(L) == <<>>

list_backends(L) == L

count(L) == Len(L)

----------------------------------------------------------------------------
(* balancer/uring_ops.rs                                                   *)

Panic(s) == [s EXCEPT !.panicked = TRUE]

\* a byte read outside the buffer it was meant to come from
Junk == 0 - 1

\* buf[from..to) as the kernel reads it through a raw pointer
RawRead(buf, from, to) ==
    [i \in 1..(to - from) |-> IF from + i <= Len(buf) THEN buf[from + i] ELSE Junk]

post_accept(s, listen_fd, pair_id) ==
    Push(s, Sqe(pack_user_data(pair_id, Op("Accept", 0)), listen_fd, 0, 0, <<>>))

\* write_ptr_len subtracts in usize: buf.len() - end below zero panics
post_recv_headers(s, pair) ==
    LET hb == pair.header_buffer
    IN IF hb.end > Len(hb.buf) THEN Panic(s)
       ELSE Push(s, Sqe(pack_user_data(pair.id, Op("RecvHeaders", 0)),
                        pair.client_fd, hb.end, Len(hb.buf) - hb.end, <<>>))

post_nop_connect(s, pair_id) ==
    Push(s, Sqe(pack_user_data(pair_id, Op("ConnectBackend", 0)), -1, 0, 0, <<>>))

\* post_recv_pump and post_send_pump give the state and the pump after the call
post_recv_pump(s, pair_id, pump, tag) ==
    IF pump.recv_in_flight THEN [st |-> s, pump |-> pump]
    ELSE IF pump.bytes_ready_to_send > Len(pump.buffer)
    THEN [st |-> Panic(s), pump |-> pump]
    ELSE IF Len(pump.buffer) - pump.bytes_ready_to_send = 0
    THEN [st |-> s, pump |-> pump]
    ELSE [st |-> Push(s, Sqe(pack_user_data(pair_id, tag), pump.read_fd,
                             pump.bytes_ready_to_send,
                             Len(pump.buffer) - pump.bytes_ready_to_send, <<>>)),
          pump |-> [pump EXCEPT !.recv_in_flight = TRUE]]

post_send_pump(s, pair_id, pump, tag) ==
    IF pump.send_in_flight THEN [st |-> s, pump |-> pump]
    ELSE IF pump.bytes_already_sent >= pump.bytes_ready_to_send
    THEN [st |-> s, pump |-> pump]
    ELSE [st |-> Push(s, Sqe(pack_user_data(pair_id, tag), pump.write_fd,
                             pump.bytes_already_sent,
                             pump.bytes_ready_to_send - pump.bytes_already_sent,
                             RawRead(pump.buffer, pump.bytes_already_sent,
                                     pump.bytes_ready_to_send))),
          pump |-> [pump EXCEPT !.send_in_flight = TRUE]]

\* core/socket.rs make_backend_socket: a new descriptor, the next number
NewSocket(s, sock) ==
    [s EXCEPT !.socks = Append(@, sock), !.fdOpen = @ \cup {Len(s.socks) + 1}]

BackendSock(response, client_fd) ==
    [kind |-> "backend", stream |-> response, rpos |-> 0, out |-> <<>>,
     peer |-> client_fd]

ClientSock(request) ==
    [kind |-> "client", stream |-> request, rpos |-> 0, out |-> <<>>, peer |-> 0]

\* post_connect_backend: env.outcome is what socket(2) and connect(2) do.
\* The result is the state, the pair and whether it returned Ok.
post_connect_backend(s, pair, backend_addr, env) ==
    IF env.outcome = "socket_fail" THEN [st |-> s, pair |-> pair, ok |-> FALSE]
    ELSE LET backend_fd == Len(s.socks) + 1
             s1 == NewSocket(s, BackendSock(env.response, pair.client_fd))
             p1 == set_backend_sockaddr(attach_backend_socket(pair, backend_fd),
                                        SOCKADDR_IN_LEN)
         IN IF env.outcome = "connect_fail"
            THEN [st |-> s1, pair |-> p1, ok |-> FALSE]
            ELSE [st |-> post_nop_connect(s1, p1.id), pair |-> p1, ok |-> TRUE]

----------------------------------------------------------------------------
(* balancer/handlers.rs                                                    *)

\* if let Some(pair) = pool.get_mut(id) { pair.had_error = true; }
MarkError(s, id) ==
    IF Occupied(s.pairs, id)
    THEN SetPair(s, id, [Pair(s, id) EXCEPT !.had_error = TRUE])
    ELSE s

handle_accept(s, id, res, listen_fd) ==
    IF res < 0 THEN post_accept(s, listen_fd, id)
    ELSE
        LET s1 == IF Occupied(s.pairs, id)
                  THEN LET p1 == [Pair(s, id) EXCEPT !.client_fd = res,
                                                     !.header_buffer.start = 0,
                                                     !.header_buffer.end = 0]
                       IN post_recv_headers(SetPair(s, id, p1), p1)
                  ELSE s
            a == alloc(s1)
            s2 == ensure_slot(a.st, a.id, -1)
        IN post_accept(s2, listen_fd, a.id)

\* The Ok(meta) arm of handle_recv_headers; p1 is the pair after wrote(res).
HeadersComplete(s, id, p1, meta, env) ==
    LET sel == select_backend(s)
        backend_addr == sel.addr
        p2 == [p1 EXCEPT !.request_content_length = meta.content_length,
                         !.request_transfer_encoding_chunked = meta.chunked,
                         !.backend_address = <<backend_addr>>]
        header_buf == p2.header_buffer.buf
        start == p2.header_buffer.start
        end == p2.header_buffer.end
        old_pump_buf == p2.pump_client_to_backend.buffer
        data_len == end - start
        moved == IF start # 0 /\ data_len > 0
                 THEN Overlay(header_buf, 0, Slice(header_buf, start, end))
                 ELSE header_buf
        p3 == [p2 EXCEPT
                 !.header_buffer = replace_buffer(drain(p2.header_buffer), old_pump_buf),
                 !.pump_client_to_backend.buffer = moved,
                 !.pump_client_to_backend.bytes_ready_to_send = data_len,
                 !.pump_client_to_backend.bytes_already_sent = 0]
        b == borrow_connection(sel.st, backend_addr)
    IN IF b.fd # <<>>
       THEN LET p4 == start_streaming(attach_backend_socket(p3, b.fd[1]))
                r1 == IF p4.pump_client_to_backend.bytes_ready_to_send > 0
                      THEN post_send_pump(b.st, id, p4.pump_client_to_backend,
                                          Op("Send", ClientToBackend))
                      ELSE [st |-> b.st, pump |-> p4.pump_client_to_backend]
                r2 == post_recv_pump(r1.st, id, p4.pump_backend_to_client,
                                     Op("Recv", BackendToClient))
            IN SetPair(r2.st, id, [p4 EXCEPT !.pump_client_to_backend = r1.pump,
                                             !.pump_backend_to_client = r2.pump])
       ELSE LET c == post_connect_backend(b.st, p3, backend_addr, env)
            IN IF c.ok THEN SetPair(c.st, id, c.pair)
               ELSE teardown(SetPair(c.st, id, [c.pair EXCEPT !.had_error = TRUE]), id)

\* window() slices buf[start..end]: out of range panics
\* a handler that marks the error of a malformed request and keeps the slot
handle_recv_headers_keeps_malformed(s, id, res, env) ==
    IF res <= 0 THEN teardown(MarkError(s, id), id)
    ELSE IF ~Occupied(s.pairs, id) THEN s
    ELSE
        LET p0 == Pair(s, id)
            p1 == [p0 EXCEPT !.header_buffer = wrote(p0.header_buffer, res)]
        IN IF p1.header_buffer.end > Len(p1.header_buffer.buf) THEN Panic(s)
           ELSE LET meta == peek_request_headers(window(p1.header_buffer))
                IN IF meta.kind = "Incomplete"
                   THEN post_recv_headers(SetPair(s, id, p1), p1)
                   ELSE IF meta.kind = "Malformed"
                   THEN SetPair(s, id, [p1 EXCEPT !.had_error = TRUE])
                   ELSE HeadersComplete(s, id, p1, meta, env)

handle_recv_headers(s, id, res, env) ==
    IF res <= 0 THEN teardown(MarkError(s, id), id)
    ELSE IF ~Occupied(s.pairs, id) THEN s
    ELSE
        LET p0 == Pair(s, id)
            p1 == [p0 EXCEPT !.header_buffer = wrote(p0.header_buffer, res)]
        IN IF p1.header_buffer.end > Len(p1.header_buffer.buf) THEN Panic(s)
           ELSE LET meta == peek_request_headers(window(p1.header_buffer))
                IN IF meta.kind = "Incomplete"
                   THEN post_recv_headers(SetPair(s, id, p1), p1)
                   ELSE IF meta.kind = "Malformed"
                   THEN teardown(SetPair(s, id, [p1 EXCEPT !.had_error = TRUE]), id)
                   ELSE HeadersComplete(s, id, p1, meta, env)

EINPROGRESS == 115
ECONNREFUSED == 111

\* start_streaming, then the first send and recv of handle_connect_backend
StartPumps(s, id, p) ==
    LET p1 == start_streaming(p)
        r1 == IF p1.pump_client_to_backend.bytes_ready_to_send > 0
              THEN post_send_pump(s, id, p1.pump_client_to_backend,
                                  Op("Send", ClientToBackend))
              ELSE [st |-> s, pump |-> p1.pump_client_to_backend]
        r2 == post_recv_pump(r1.st, id, p1.pump_backend_to_client,
                             Op("Recv", BackendToClient))
    IN SetPair(r2.st, id, [p1 EXCEPT !.pump_client_to_backend = r1.pump,
                                     !.pump_backend_to_client = r2.pump])

\* err_code is what getsockopt(SO_ERROR) stores for pair.backend_fd
handle_connect_backend(s, id, err_code) ==
    IF ~Occupied(s.pairs, id) THEN s
    ELSE IF err_code = EINPROGRESS THEN post_nop_connect(s, id)
    ELSE IF err_code # 0 THEN teardown(MarkError(s, id), id)
    ELSE StartPumps(s, id, Pair(s, id))

\* a handler that takes a client's end of stream for an empty read
handle_recv_client_to_backend_past_eof(s, id, res) ==
    IF res < 0 THEN teardown(MarkError(s, id), id)
    ELSE IF ~Occupied(s.pairs, id) THEN s
    ELSE LET p == Pair(s, id)
             pump == [p.pump_client_to_backend EXCEPT
                        !.recv_in_flight = FALSE,
                        !.bytes_ready_to_send = @ + res]
             r == post_send_pump(s, id, pump, Op("Send", ClientToBackend))
         IN SetPair(r.st, id, [p EXCEPT !.pump_client_to_backend = r.pump])

handle_recv_client_to_backend(s, id, res) ==
    IF res <= 0 THEN teardown(MarkError(s, id), id)
    ELSE IF ~Occupied(s.pairs, id) THEN s
    ELSE LET p == Pair(s, id)
             pump == [p.pump_client_to_backend EXCEPT
                        !.recv_in_flight = FALSE,
                        !.bytes_ready_to_send = @ + res]
             r == post_send_pump(s, id, pump, Op("Send", ClientToBackend))
         IN SetPair(r.st, id, [p EXCEPT !.pump_client_to_backend = r.pump])

handle_send_client_to_backend(s, id, res) ==
    IF res < 0 THEN teardown(MarkError(s, id), id)
    ELSE IF ~Occupied(s.pairs, id) THEN s
    ELSE LET p == Pair(s, id)
             pump == [p.pump_client_to_backend EXCEPT
                        !.send_in_flight = FALSE,
                        !.bytes_already_sent = @ + res]
             r == IF pump.bytes_already_sent < pump.bytes_ready_to_send
                  THEN post_send_pump(s, id, pump, Op("Send", ClientToBackend))
                  ELSE post_recv_pump(s, id, reset_buffer(pump),
                                      Op("Recv", ClientToBackend))
         IN SetPair(r.st, id, [p EXCEPT !.pump_client_to_backend = r.pump])

reset_pump_after_finish(pump) ==
    [reset_buffer(pump) EXCEPT !.read_fd = -1, !.write_fd = -1,
                               !.recv_in_flight = FALSE, !.send_in_flight = FALSE]

\* finish_request that leaves backend_fd in the record
finish_request_keeping_fd(s, id) ==
    LET p == Pair(s, id)
        pumps_idle == is_idle(p.pump_client_to_backend)
                        /\ is_idle(p.pump_backend_to_client)
        healthy_backend == ~p.had_error /\ p.backend_fd >= 0
        reused == pumps_idle /\ healthy_backend /\ p.backend_address # <<>>
        s1 == IF pumps_idle /\ healthy_backend
              THEN (IF p.backend_address # <<>>
                    THEN return_connection(s, p.backend_address[1], p.backend_fd)
                    ELSE close_fd_quiet(s, p.backend_fd))
              ELSE IF p.backend_fd >= 0 THEN close_fd_quiet(s, p.backend_fd)
              ELSE s
        p1 == [p EXCEPT
                 !.backend_address = <<>>,
                 !.had_error = FALSE,
                 !.pump_client_to_backend = reset_pump_after_finish(@),
                 !.pump_backend_to_client = reset_pump_after_finish(@)]
    IN [st |-> SetPair(s1, id, p1), reused |-> reused]

\* finish_request that returns the backend whatever had_error says
finish_request_despite_error(s, id) ==
    LET p == Pair(s, id)
        pumps_idle == is_idle(p.pump_client_to_backend)
                        /\ is_idle(p.pump_backend_to_client)
        healthy_backend == p.backend_fd >= 0
        reused == pumps_idle /\ healthy_backend /\ p.backend_address # <<>>
        s1 == IF pumps_idle /\ healthy_backend
              THEN (IF p.backend_address # <<>>
                    THEN return_connection(s, p.backend_address[1], p.backend_fd)
                    ELSE close_fd_quiet(s, p.backend_fd))
              ELSE IF p.backend_fd >= 0 THEN close_fd_quiet(s, p.backend_fd)
              ELSE s
        p1 == [p EXCEPT
                 !.backend_fd = -1,
                 !.backend_address = <<>>,
                 !.had_error = FALSE,
                 !.pump_client_to_backend = reset_pump_after_finish(@),
                 !.pump_backend_to_client = reset_pump_after_finish(@)]
    IN [st |-> SetPair(s1, id, p1), reused |-> reused]

\* finish_request(pair, cache): the state after it, and whether the backend was cached
finish_request(s, id) ==
    LET p == Pair(s, id)
        pumps_idle == is_idle(p.pump_client_to_backend)
                        /\ is_idle(p.pump_backend_to_client)
        healthy_backend == ~p.had_error /\ p.backend_fd >= 0
        reused == pumps_idle /\ healthy_backend /\ p.backend_address # <<>>
        s1 == IF pumps_idle /\ healthy_backend
              THEN (IF p.backend_address # <<>>
                    THEN return_connection(s, p.backend_address[1], p.backend_fd)
                    ELSE close_fd_quiet(s, p.backend_fd))
              ELSE IF p.backend_fd >= 0 THEN close_fd_quiet(s, p.backend_fd)
              ELSE s
        p1 == [p EXCEPT
                 !.backend_fd = -1,
                 !.backend_address = <<>>,
                 !.backend_sockaddr_len = 0,
                 !.request_content_length = <<>>,
                 !.request_transfer_encoding_chunked = FALSE,
                 !.had_error = FALSE,
                 !.pump_client_to_backend = reset_pump_after_finish(@),
                 !.pump_backend_to_client = reset_pump_after_finish(@),
                 !.header_buffer.start = 0,
                 !.header_buffer.end = 0]
    IN [st |-> SetPair(s1, id, p1), reused |-> reused]

handle_recv_backend_to_client(s, id, res) ==
    IF res < 0 THEN teardown(MarkError(s, id), id)
    ELSE IF ~Occupied(s.pairs, id) THEN s
    ELSE IF res = 0
    THEN LET p == Pair(s, id)
             s1 == SetPair(s, id, [p EXCEPT !.pump_backend_to_client.recv_in_flight = FALSE])
             f == finish_request(s1, id)
         IN IF f.reused THEN recycle_slot_only(f.st, id) ELSE teardown(f.st, id)
    ELSE LET p == Pair(s, id)
             pump == [p.pump_backend_to_client EXCEPT
                        !.recv_in_flight = FALSE,
                        !.bytes_ready_to_send = @ + res]
             r == post_send_pump(s, id, pump, Op("Send", BackendToClient))
         IN SetPair(r.st, id, [p EXCEPT !.pump_backend_to_client = r.pump])

handle_send_backend_to_client(s, id, res) ==
    IF res < 0 THEN teardown(MarkError(s, id), id)
    ELSE IF ~Occupied(s.pairs, id) THEN s
    ELSE LET p == Pair(s, id)
             pump == [p.pump_backend_to_client EXCEPT
                        !.send_in_flight = FALSE,
                        !.bytes_already_sent = @ + res]
             r == IF pump.bytes_already_sent < pump.bytes_ready_to_send
                  THEN post_send_pump(s, id, pump, Op("Send", BackendToClient))
                  ELSE post_recv_pump(s, id, reset_buffer(pump),
                                      Op("Recv", BackendToClient))
         IN SetPair(r.st, id, [p EXCEPT !.pump_backend_to_client = r.pump])

----------------------------------------------------------------------------
(* balancer/worker.rs : the private handlers that run_worker's match calls. *)
(* The handlers for a client-to-backend recv, for a client-to-backend send  *)
(* and for a backend-to-client send there have the code of their namesakes  *)
(* in balancer/handlers.rs, less the had_error mark on a record that        *)
(* teardown then drops; the ones that differ follow.                        *)

\* HttpBuf::consume_to
consume_to(hb, pos) ==
    IF pos > Len(hb.buf) \div 2
    THEN [buf |-> Overlay(hb.buf, 0, Slice(hb.buf, pos, hb.end)),
          start |-> 0, end |-> hb.end - pos]
    ELSE [hb EXCEPT !.start = pos]

\* The Ok(meta) arm: the request is copied into the pump's own buffer.
worker_HeadersComplete(s, id, p1, meta, env) ==
    LET sel == select_backend(s)
        p2 == [p1 EXCEPT !.request_content_length = meta.content_length,
                         !.request_transfer_encoding_chunked = meta.chunked]
        request_data == window(p2.header_buffer)
        c == post_connect_backend(sel.st, p2, sel.addr, env)
    IN IF ~c.ok THEN teardown(SetPair(c.st, id, c.pair), id)
       ELSE LET hb == consume_to(c.pair.header_buffer, c.pair.header_buffer.end)
                pump == c.pair.pump_client_to_backend
                n == Min(Len(request_data), Len(pump.buffer))
                staged == IF request_data # <<>>
                          THEN [pump EXCEPT
                                  !.buffer = Overlay(@, 0, Slice(request_data, 0, n)),
                                  !.bytes_ready_to_send = n,
                                  !.bytes_already_sent = 0]
                          ELSE pump
            IN SetPair(c.st, id, [c.pair EXCEPT !.header_buffer = hb,
                                                !.pump_client_to_backend = staged])

worker_handle_recv_headers(s, id, res, env) ==
    IF res <= 0 THEN teardown(s, id)
    ELSE IF ~Occupied(s.pairs, id) THEN s
    ELSE
        LET p0 == Pair(s, id)
            p1 == [p0 EXCEPT !.header_buffer = wrote(p0.header_buffer, res)]
        IN IF p1.header_buffer.end > Len(p1.header_buffer.buf) THEN Panic(s)
           ELSE LET meta == peek_request_headers(window(p1.header_buffer))
                IN IF meta.kind = "Incomplete"
                   THEN post_recv_headers(SetPair(s, id, p1), p1)
                   ELSE IF meta.kind = "Malformed"
                   THEN teardown(SetPair(s, id, p1), id)
                   ELSE worker_HeadersComplete(s, id, p1, meta, env)

\* the completion's result is not looked at
worker_handle_connect_backend(s, id, res) ==
    IF ~Occupied(s.pairs, id) THEN s
    ELSE StartPumps(s, id, Pair(s, id))

worker_handle_recv_backend_to_client(s, id, res) ==
    IF res <= 0 THEN teardown(s, id)
    ELSE IF ~Occupied(s.pairs, id) THEN s
    ELSE LET p == Pair(s, id)
             pump == [p.pump_backend_to_client EXCEPT
                        !.recv_in_flight = FALSE,
                        !.bytes_ready_to_send = @ + res]
             r == post_send_pump(s, id, pump, Op("Send", BackendToClient))
         IN SetPair(r.st, id, [p EXCEPT !.pump_backend_to_client = r.pump])

----------------------------------------------------------------------------
(* balancer/worker.rs : the dispatch of one completion                     *)

LISTEN_FD == 0

\* the match of the loop without the lookup of the slot before it
dispatch_without_lookup(s, tag, res, env) ==
    LET d == unpack_user_data(tag)
        id == d.id
    IN CASE d.op.name = "Accept" -> handle_accept(s, id, res, LISTEN_FD)
         [] d.op.name = "RecvHeaders" -> handle_recv_headers(s, id, res, env)
         [] d.op.name = "ConnectBackend" ->
               handle_connect_backend(s, id, env.err_code)
         [] d.op.name = "Recv" /\ d.op.dir = ClientToBackend ->
               handle_recv_client_to_backend(s, id, res)
         [] d.op.name = "Send" /\ d.op.dir = ClientToBackend ->
               handle_send_client_to_backend(s, id, res)
         [] d.op.name = "Recv" /\ d.op.dir = BackendToClient ->
               handle_recv_backend_to_client(s, id, res)
         [] d.op.name = "Send" /\ d.op.dir = BackendToClient ->
               handle_send_backend_to_client(s, id, res)
         [] d.op.name = "Timeout" -> teardown(s, id)

\* env carries what the kernel answers to the calls a handler makes itself
dispatch(s, tag, res, env) ==
    LET d == unpack_user_data(tag)
        id == d.id
    IN IF ~Occupied(s.pairs, id) THEN s
       ELSE CASE d.op.name = "Accept" -> handle_accept(s, id, res, LISTEN_FD)
              [] d.op.name = "RecvHeaders" -> handle_recv_headers(s, id, res, env)
              [] d.op.name = "ConnectBackend" ->
                    handle_connect_backend(s, id, env.err_code)
              [] d.op.name = "Recv" /\ d.op.dir = ClientToBackend ->
                    handle_recv_client_to_backend(s, id, res)
              [] d.op.name = "Send" /\ d.op.dir = ClientToBackend ->
                    handle_send_client_to_backend(s, id, res)
              [] d.op.name = "Recv" /\ d.op.dir = BackendToClient ->
                    handle_recv_backend_to_client(s, id, res)
              [] d.op.name = "Send" /\ d.op.dir = BackendToClient ->
                    handle_send_backend_to_client(s, id, res)
              [] d.op.name = "Timeout" -> teardown(s, id)

\* the same match, calling the private handlers of balancer/worker.rs
worker_dispatch(s, tag, res, env) ==
    LET d == unpack_user_data(tag)
        id == d.id
    IN IF ~Occupied(s.pairs, id) THEN s
       ELSE CASE d.op.name = "Accept" -> handle_accept(s, id, res, LISTEN_FD)
              [] d.op.name = "RecvHeaders" ->
                    worker_handle_recv_headers(s, id, res, env)
              [] d.op.name = "ConnectBackend" ->
                    worker_handle_connect_backend(s, id, res)
              [] d.op.name = "Recv" /\ d.op.dir = ClientToBackend ->
                    handle_recv_client_to_backend(s, id, res)
              [] d.op.name = "Send" /\ d.op.dir = ClientToBackend ->
                    handle_send_client_to_backend(s, id, res)
              [] d.op.name = "Recv" /\ d.op.dir = BackendToClient ->
                    worker_handle_recv_backend_to_client(s, id, res)
              [] d.op.name = "Send" /\ d.op.dir = BackendToClient ->
                    handle_send_backend_to_client(s, id, res)
              [] d.op.name = "Timeout" -> teardown(s, id)

----------------------------------------------------------------------------
(* The environment: clients, backends and the kernel.                      *)

\* "G  HTTP/1.1\r\nh\r\n\r\n" followed by the body "AB"
RequestGood ==
    <<71, SP, SP, 72, 84, 84, 80, 47, 49, 46, 49, CR, LF, 104, CR, LF, CR, LF,
      65, 66>>
\* "NOT-HTTP\r\n\r\n"
RequestBad == <<78, 79, 84, 45, 72, 84, 84, 80, CR, LF, CR, LF>>
ClientStreams == {RequestGood, RequestBad}

\* "RST"
Responses == {<<82, 83, 84>>}

\* The client's segments end at these offsets of its stream; so does the
\* room the backend's socket has for the request.
RecvCuts == {6, 18}
SendCuts == {18}

Remove(s, sqe) == [s EXCEPT !.ring = @ (-) SetToBag({sqe})]

OpOf(sqe) == unpack_user_data(sqe.tag).op
IdOf(sqe) == unpack_user_data(sqe.tag).id

Pending(name, dir) ==
    {e \in DOMAIN ring : OpOf(e).name = name /\ OpOf(e).dir = dir}

\* what recv(2) can return for the submission
RecvResults(s, sqe) ==
    IF sqe.fd < 1 THEN {-1}
    ELSE LET sock == s.socks[sqe.fd]
             n == Min(sqe.len, Len(sock.stream) - sock.rpos)
         IN {-1, 0} \cup
            {k \in 1..n : k = n \/ sock.kind = "backend" \/ (sock.rpos + k) \in RecvCuts}

\* what send(2) can return for the submission
SendResults(s, sqe) ==
    IF sqe.fd < 1 THEN {-1}
    ELSE LET sock == s.socks[sqe.fd]
         IN {-1} \cup
            {k \in 1..sqe.len :
                k = sqe.len \/ sock.kind = "client" \/ (Len(sock.out) + k) \in SendCuts}

\* The kernel copies res bytes of the peer's stream to the address the
\* submission named.  The buffer of a stale submission has been dropped: the
\* bytes go to freed memory, which the allocator may have handed to the record
\* now in the slot (landed) or not.
KernelRecv(s, sqe, res, landed) ==
    IF res <= 0 THEN s
    ELSE
        LET sock == s.socks[sqe.fd]
            data == Slice(sock.stream, sock.rpos, sock.rpos + res)
            s1 == [s EXCEPT !.socks[sqe.fd].rpos = @ + res]
            id == IdOf(sqe)
            op == OpOf(sqe)
        IN IF ~Occupied(s.pairs, id) \/ (sqe.stale /\ ~landed) THEN s1
           ELSE IF op.name = "RecvHeaders"
           THEN [s1 EXCEPT !.pairs[id + 1][1].header_buffer.buf =
                               Overlay(@, sqe.off, data)]
           ELSE IF op.dir = ClientToBackend
           THEN [s1 EXCEPT !.pairs[id + 1][1].pump_client_to_backend.buffer =
                               Overlay(@, sqe.off, data)]
           ELSE [s1 EXCEPT !.pairs[id + 1][1].pump_backend_to_client.buffer =
                               Overlay(@, sqe.off, data)]

\* The kernel hands res bytes of the submission's range to the socket.
KernelSend(s, sqe, res) ==
    IF res <= 0 THEN s
    ELSE [s EXCEPT !.socks[sqe.fd].out = @ \o Slice(sqe.data, 0, res)]

Landings(sqe) == IF sqe.stale THEN BOOLEAN ELSE {TRUE}

NoEnv == [outcome |-> "socket_fail", response |-> <<>>, err_code |-> 0]

\* what socket(2) and connect(2) can answer inside post_connect_backend
ConnectEnvs(s) ==
    {NoEnv} \cup
    (IF Len(s.socks) < MaxFd
     THEN {[outcome |-> o, response |-> r, err_code |-> 0] :
              o \in {"connect_fail", "ok"}, r \in Responses}
     ELSE {})

\* what getsockopt(SO_ERROR) can store for the record in the slot
SoErrors(s, id) ==
    IF Occupied(s.pairs, id) /\ Pair(s, id).backend_fd >= 0
    THEN {0, EINPROGRESS, ECONNREFUSED} ELSE {0}

----------------------------------------------------------------------------
(* The state as one record, for the handlers, and the steps of the loop.   *)

State ==
    [pairs |-> pairs, freelist |-> freelist, cache |-> cache, ring |-> ring,
     counter |-> counter, backends |-> backends, socks |-> socks,
     fdOpen |-> fdOpen, panicked |-> panicked, ebadf |-> {}]

CommitReactor(s) ==
    /\ pairs' = s.pairs
    /\ freelist' = s.freelist
    /\ cache' = s.cache
    /\ ring' = s.ring
    /\ counter' = s.counter
    /\ backends' = s.backends
    /\ socks' = s.socks
    /\ fdOpen' = s.fdOpen
    /\ panicked' = s.panicked

Commit(s) == CommitReactor(s) /\ UNCHANGED regvars

Released == [kind |-> "released", stream |-> <<>>, rpos |-> 0, out |-> <<>>, peer |-> 0]

\* The kernel releases a socket once its descriptor is closed and no
\* submission refers to it.
Release(s) ==
    [s EXCEPT !.socks =
        [fd \in DOMAIN @ |->
            IF fd \notin s.fdOpen /\ \A e \in DOMAIN s.ring : e.fd # fd
            THEN Released ELSE @[fd]]]

\* One completion is taken from the ring and dispatched.
Handle(s, sqe, res, env) ==
    /\ ~panicked
    /\ Commit(Release(dispatch(s, sqe.tag, res, env)))

CompleteAcceptFail ==
    \E sqe \in Pending("Accept", 0) :
        Handle(Remove(State, sqe), sqe, -1, NoEnv)

CompleteAccept ==
    \E sqe \in Pending("Accept", 0), req \in ClientStreams :
        /\ Len(socks) < MaxFd
        /\ LET s1 == NewSocket(Remove(State, sqe), ClientSock(req))
           IN /\ Len(dispatch(s1, sqe.tag, Len(socks) + 1, NoEnv).pairs) <= MaxSlab
              /\ Handle(s1, sqe, Len(socks) + 1, NoEnv)

CompleteRecvHeaders ==
    \E sqe \in Pending("RecvHeaders", 0) :
        \E res \in RecvResults(State, sqe), landed \in Landings(sqe),
           env \in ConnectEnvs(State) :
            Handle(KernelRecv(Remove(State, sqe), sqe, res, landed), sqe, res, env)

CompleteConnectBackend ==
    \E sqe \in Pending("ConnectBackend", 0) :
        \E e \in SoErrors(State, IdOf(sqe)) :
            Handle(Remove(State, sqe), sqe, 0, [NoEnv EXCEPT !.err_code = e])

CompleteRecv(sqe, res) ==
    \E landed \in Landings(sqe) :
        Handle(KernelRecv(Remove(State, sqe), sqe, res, landed), sqe, res, NoEnv)

CompleteSend(sqe, res) ==
    Handle(KernelSend(Remove(State, sqe), sqe, res), sqe, res, NoEnv)

CompleteRecvClientToBackend ==
    \E sqe \in Pending("Recv", ClientToBackend) :
        \E res \in RecvResults(State, sqe) : CompleteRecv(sqe, res)

CompleteSendClientToBackend ==
    \E sqe \in Pending("Send", ClientToBackend) :
        \E res \in SendResults(State, sqe) : CompleteSend(sqe, res)

CompleteRecvBackendToClient ==
    \E sqe \in Pending("Recv", BackendToClient) :
        \E res \in RecvResults(State, sqe) : CompleteRecv(sqe, res)

CompleteSendBackendToClient ==
    \E sqe \in Pending("Send", BackendToClient) :
        \E res \in SendResults(State, sqe) : CompleteSend(sqe, res)

\* The same steps with the private handlers of balancer/worker.rs.
WorkerHandle(s, sqe, res, env) ==
    /\ ~panicked
    /\ Commit(Release(worker_dispatch(s, sqe.tag, res, env)))

WorkerCompleteAcceptFail ==
    \E sqe \in Pending("Accept", 0) :
        WorkerHandle(Remove(State, sqe), sqe, -1, NoEnv)

WorkerCompleteAccept ==
    \E sqe \in Pending("Accept", 0), req \in ClientStreams :
        /\ Len(socks) < MaxFd
        /\ LET s1 == NewSocket(Remove(State, sqe), ClientSock(req))
           IN /\ Len(worker_dispatch(s1, sqe.tag, Len(socks) + 1, NoEnv).pairs) <= MaxSlab
              /\ WorkerHandle(s1, sqe, Len(socks) + 1, NoEnv)

WorkerCompleteRecvHeaders ==
    \E sqe \in Pending("RecvHeaders", 0) :
        \E res \in RecvResults(State, sqe), landed \in Landings(sqe),
           env \in ConnectEnvs(State) :
            WorkerHandle(KernelRecv(Remove(State, sqe), sqe, res, landed), sqe, res, env)

WorkerCompleteConnectBackend ==
    \E sqe \in Pending("ConnectBackend", 0) :
        \E e \in SoErrors(State, IdOf(sqe)) :
            WorkerHandle(Remove(State, sqe), sqe, 0, [NoEnv EXCEPT !.err_code = e])

WorkerCompleteRecv(sqe, res) ==
    \E landed \in Landings(sqe) :
        WorkerHandle(KernelRecv(Remove(State, sqe), sqe, res, landed), sqe, res, NoEnv)

WorkerCompleteSend(sqe, res) ==
    WorkerHandle(KernelSend(Remove(State, sqe), sqe, res), sqe, res, NoEnv)

WorkerCompleteRecvClientToBackend ==
    \E sqe \in Pending("Recv", ClientToBackend) :
        \E res \in RecvResults(State, sqe) : WorkerCompleteRecv(sqe, res)

WorkerCompleteSendClientToBackend ==
    \E sqe \in Pending("Send", ClientToBackend) :
        \E res \in SendResults(State, sqe) : WorkerCompleteSend(sqe, res)

WorkerCompleteRecvBackendToClient ==
    \E sqe \in Pending("Recv", BackendToClient) :
        \E res \in RecvResults(State, sqe) : WorkerCompleteRecv(sqe, res)

WorkerCompleteSendBackendToClient ==
    \E sqe \in Pending("Send", BackendToClient) :
        \E res \in SendResults(State, sqe) : WorkerCompleteSend(sqe, res)

\* main.rs : the registry the workers start with
InitialBackends == <<8081, 8082, 8083>>

\* the threads that share the registry, none of them in a call
Threads == 1..MaxThreads

Unlocked == [readers |-> {}, writer |-> {}]

\* pc: where the thread is; op, arg, out: the call it last finished, the
\* address it was given and what it returned; view: the list when its read lock was granted; k, idx:
\* the counter value it fetched and the index it computed
IdleThread ==
    [pc |-> "idle", op |-> "none", arg |-> <<>>, out |-> <<>>, view |-> <<>>,
     k |-> 0, idx |-> 0]

RegistryReady ==
    /\ observed = <<>>
    /\ initialized = TRUE
    /\ rwlock = Unlocked
    /\ threads = [t \in Threads |-> IdleThread]

Empty ==
    [pairs |-> <<>>, freelist |-> <<>>, cache |-> <<>>, ring |-> EmptyBag,
     counter |-> 0, backends |-> InitialBackends, socks |-> <<>>,
     fdOpen |-> {}, panicked |-> FALSE, ebadf |-> {}]

\* run_worker: prime the accept pipeline
RECURSIVE Prime(_, _)
Prime(s, n) ==
    IF n = 0 THEN s
    ELSE LET a == alloc(s)
         IN Prime(post_accept(ensure_slot(a.st, a.id, -1), LISTEN_FD, a.id), n - 1)

Init ==
    LET s == Prime(Empty, InitialAccepts)
    IN /\ pairs = s.pairs
       /\ freelist = s.freelist
       /\ cache = s.cache
       /\ ring = s.ring
       /\ counter = s.counter
       /\ backends = s.backends
       /\ socks = s.socks
       /\ fdOpen = s.fdOpen
       /\ panicked = s.panicked
       /\ RegistryReady

\* The loop linked with the handlers of balancer/handlers.rs.
Next ==
    \/ CompleteAcceptFail
    \/ CompleteAccept
    \/ CompleteRecvHeaders
    \/ CompleteConnectBackend
    \/ CompleteRecvClientToBackend
    \/ CompleteSendClientToBackend
    \/ CompleteRecvBackendToClient
    \/ CompleteSendBackendToClient

Spec == Init /\ [][Next]_vars

\* The loop as balancer/worker.rs links it, with its private handlers.
NextWorker ==
    \/ WorkerCompleteAcceptFail
    \/ WorkerCompleteAccept
    \/ WorkerCompleteRecvHeaders
    \/ WorkerCompleteConnectBackend
    \/ WorkerCompleteRecvClientToBackend
    \/ WorkerCompleteSendClientToBackend
    \/ WorkerCompleteRecvBackendToClient
    \/ WorkerCompleteSendBackendToClient

SpecWorker == Init /\ [][NextWorker]_vars

----------------------------------------------------------------------------
(* The slab and the idle cache on their own: the calls the reactor makes   *)
(* on them, taken in any order.                                            *)

InitPool ==
    /\ pairs = Empty.pairs
    /\ freelist = Empty.freelist
    /\ cache = Empty.cache
    /\ ring = Empty.ring
    /\ counter = Empty.counter
    /\ backends = Empty.backends
    /\ socks = Empty.socks
    /\ fdOpen = Empty.fdOpen
    /\ panicked = Empty.panicked
    /\ RegistryReady

SlotIds == 0..MaxSlab

\* run_worker, handle_accept: alloc(), then ensure_slot(id, -1)
PoolAlloc ==
    LET a == alloc(State)
    IN /\ Len(a.st.pairs) <= MaxSlab
       /\ Commit(ensure_slot(a.st, a.id, -1))

\* handle_accept: pair.client_fd = res
PoolAccepted(id) ==
    /\ Occupied(pairs, id)
    /\ Pair(State, id).client_fd < 0
    /\ Len(socks) < MaxFd
    /\ LET s1 == NewSocket(State, ClientSock(RequestGood))
       IN Commit(SetPair(s1, id, [Pair(s1, id) EXCEPT !.client_fd = Len(socks) + 1]))

\* handle_recv_headers: the backend is selected, then borrowed or created
PoolRouted(id) ==
    /\ Occupied(pairs, id)
    /\ Pair(State, id).client_fd >= 0
    /\ Pair(State, id).backend_fd < 0
    /\ LET sel == select_backend(State)
           p1 == [Pair(State, id) EXCEPT !.backend_address = <<sel.addr>>]
           b == borrow_connection(sel.st, sel.addr)
       IN IF b.fd # <<>>
          THEN Commit(SetPair(b.st, id, attach_backend_socket(p1, b.fd[1])))
          ELSE /\ Len(socks) < MaxFd
               /\ Commit(SetPair(NewSocket(b.st, BackendSock(<<>>, p1.client_fd)), id,
                                 attach_backend_socket(p1, Len(socks) + 1)))

\* handle_recv_backend_to_client, res = 0: finish_request, then recycle or teardown
PoolFinish(id) ==
    /\ Occupied(pairs, id)
    /\ LET f == finish_request(State, id)
       IN Commit(Release(IF f.reused THEN recycle_slot_only(f.st, id)
                         ELSE teardown(f.st, id)))

\* teardown(id), for any id the completion tag can carry
PoolTeardown(id) ==
    /\ id \in SlotIds
    /\ Commit(Release(teardown(State, id)))

\* recycle_slot_only(id)
PoolRecycle(id) ==
    /\ id \in SlotIds
    /\ Commit(Release(recycle_slot_only(State, id)))

NextPool ==
    \/ PoolAlloc
    \/ \E id \in SlotIds : PoolAccepted(id)
    \/ \E id \in SlotIds : PoolRouted(id)
    \/ \E id \in SlotIds : PoolFinish(id)
    \/ \E id \in SlotIds : PoolTeardown(id)
    \/ \E id \in SlotIds : PoolRecycle(id)

SpecPool == InitPool /\ [][NextPool]_vars

----------------------------------------------------------------------------
(* handle_recv_backend_to_client and finish_request as functions of the   *)
(* record they find in the slot.  The record is a streaming pair (client  *)
(* descriptor 1, backend descriptor 2, address 8081) whose pumps are each *)
(* put in one of the phases below with the code's own post_recv_pump and  *)
(* post_send_pump; the streaming completions then run on it.               *)

\* a pump at rest, receiving, sending one byte, or holding one byte unsent
PumpPhases == {"idle", "recv", "send", "staged"}

\* the pump of pair 0 in direction dir, put in a phase
InPhase(s, dir, phase) ==
    LET p == Pair(s, 0)
        pump == IF dir = ClientToBackend THEN p.pump_client_to_backend
                ELSE p.pump_backend_to_client
        tagged(name) == Op(name, dir)
        r == CASE phase = "idle" -> [st |-> s, pump |-> pump]
               [] phase = "recv" -> post_recv_pump(s, 0, pump, tagged("Recv"))
               [] phase = "send" ->
                    post_send_pump(s, 0, [pump EXCEPT !.bytes_ready_to_send = 1], tagged("Send"))
               [] phase = "staged" ->
                    [st |-> s, pump |-> [pump EXCEPT !.bytes_ready_to_send = 1]]
               [] phase = "recv+send" ->
                    LET r1 == post_recv_pump(s, 0, pump, tagged("Recv"))
                    IN post_send_pump(r1.st, 0,
                                      [r1.pump EXCEPT !.bytes_ready_to_send = 1],
                                      tagged("Send"))
    IN SetPair(r.st, 0,
               IF dir = ClientToBackend
               THEN [Pair(r.st, 0) EXCEPT !.pump_client_to_backend = r.pump]
               ELSE [Pair(r.st, 0) EXCEPT !.pump_backend_to_client = r.pump])

\* the pair with its backend-to-client recv in flight
FinishInput(c2b, b2c, err, idle, response) ==
    LET a == alloc(Empty)
        s1 == NewSocket(ensure_slot(a.st, a.id, -1), ClientSock(RequestGood))
        s2 == NewSocket(s1, BackendSock(response, 1))
        p == start_streaming(
                 attach_backend_socket(
                     [Pair(s2, 0) EXCEPT !.client_fd = 1,
                                         !.backend_address = <<InitialBackends[1]>>,
                                         !.had_error = err], 2))
        s3 == InPhase(InPhase(SetPair(s2, 0, p), ClientToBackend, c2b),
                      BackendToClient, b2c)
    IN IF idle
       THEN return_connection(NewSocket(s3, BackendSock(<<>>, 0)),
                              InitialBackends[1], 3)
       ELSE s3

InitFinish ==
    \E c2b \in PumpPhases, b2c \in {"recv", "recv+send"}, err \in BOOLEAN,
       idle \in BOOLEAN, response \in {<<>>} \cup Responses :
        LET s == FinishInput(c2b, b2c, err, idle, response)
        IN /\ pairs = s.pairs
           /\ freelist = s.freelist
           /\ cache = s.cache
           /\ ring = s.ring
           /\ counter = s.counter
           /\ backends = s.backends
           /\ socks = s.socks
           /\ fdOpen = s.fdOpen
           /\ panicked = s.panicked
           /\ RegistryReady

NextFinish ==
    \/ CompleteRecvClientToBackend
    \/ CompleteSendClientToBackend
    \/ CompleteRecvBackendToClient
    \/ CompleteSendBackendToClient

SpecFinish == InitFinish /\ [][NextFinish]_vars

----------------------------------------------------------------------------
(* The idle cache (backend/connection_cache.rs) on its own.  It starts     *)
(* after MAX_CACHED - 1 or MAX_CACHED backend descriptors have been        *)
(* returned for the first address; then descriptors are returned and       *)
(* borrowed for two addresses.                                             *)

CacheAddresses == {InitialBackends[1], InitialBackends[2]}

\* the state after the backend descriptors 1..k, k <= MAX_CACHED, were
\* opened and returned for addr in turn: each one was pushed at the back
Returned(s, addr, k) ==
    IF k = 0 THEN s
    ELSE [s EXCEPT !.socks = [i \in 1..k |-> BackendSock(<<>>, 0)],
                   !.fdOpen = 1..k,
                   !.cache = [a \in {addr} |-> [i \in 1..k |-> i]]]

InitCache ==
    \E k \in {MAX_CACHED - 1, MAX_CACHED} :
        LET s == Returned(Empty, InitialBackends[1], k)
        IN /\ pairs = s.pairs
           /\ freelist = s.freelist
           /\ cache = s.cache
           /\ ring = s.ring
           /\ counter = s.counter
           /\ backends = s.backends
           /\ socks = s.socks
           /\ fdOpen = s.fdOpen
           /\ panicked = s.panicked
           /\ RegistryReady

\* finish_request: cache.return_connection(&addr, pair.backend_fd), with a
\* backend descriptor opened for the request
CacheReturn(addr) ==
    /\ Len(socks) < MAX_CACHED + MaxReturns
    /\ Commit(Release(return_connection(NewSocket(State, BackendSock(<<>>, 0)), addr,
                                        Len(socks) + 1)))

\* borrow_connection(&addr); a descriptor it gives is used and then closed
CacheBorrow(addr) ==
    LET b == borrow_connection(State, addr)
    IN /\ addr \in CacheAddresses
       /\ Commit(Release(IF b.fd = <<>> THEN b.st ELSE close_fd_quiet(b.st, b.fd[1])))

NextCache ==
    \/ \E addr \in CacheAddresses : CacheReturn(addr)
    \/ \E addr \in CacheAddresses : CacheBorrow(addr)

SpecCache == InitCache /\ [][NextCache]_vars

----------------------------------------------------------------------------
(* The registry (backend/pool.rs) and the threads that call it.  The      *)
(* worker threads and any thread that edits the list share one            *)
(* BackendPool through POOL.  A writer's critical section is one step; a  *)
(* select is three: it takes the read lock, tests for an empty list and   *)
(* fetches the counter, and indexes the list as it drops the lock.         *)

\* the addresses a caller adds or removes, and the lists init is given
Addresses == Range(InitialBackends)
InitLists == {<<>>, InitialBackends}

ReactorIdle ==
    /\ observed = <<>>
    /\ pairs = Empty.pairs
    /\ freelist = Empty.freelist
    /\ cache = Empty.cache
    /\ ring = Empty.ring
    /\ socks = Empty.socks
    /\ fdOpen = Empty.fdOpen
    /\ panicked = Empty.panicked

reactorvars == <<pairs, freelist, cache, ring, socks, fdOpen, panicked, observed>>

InitRegistry ==
    /\ ReactorIdle
    /\ counter = 0
    /\ backends = <<>>
    /\ initialized = FALSE
    /\ rwlock = Unlocked
    /\ threads = [t \in Threads |-> IdleThread]

Returns(t, op, out) ==
    [threads EXCEPT ![t] = [IdleThread EXCEPT !.pc = "ready", !.op = op, !.out = out]]

Panics(t, op) ==
    [threads EXCEPT ![t] = [IdleThread EXCEPT !.pc = "panicked", !.op = op]]

\* BackendPool::new(backends)
BackendPool_new(L) == [backends |-> L, counter |-> 0]

\* a set that stores the value although the cell was full
OnceLock_set_again(full, old, new) == [ok |-> ~full, value |-> new]

\* OnceLock::set : Ok and the value stored, or Err and the cell as it was
OnceLock_set(full, old, new) ==
    IF full THEN [ok |-> FALSE, value |-> old] ELSE [ok |-> TRUE, value |-> new]

\* init_backend_pool(list): POOL.set(BackendPool::new(list)).expect(..)
InitBackendPool(t, L) ==
    /\ threads[t].pc \in {"idle", "ready"}
    /\ LET r == OnceLock_set(initialized,
                             [backends |-> backends, counter |-> counter],
                             BackendPool_new(L))
       IN /\ initialized' = TRUE
          /\ backends' = r.value.backends
          /\ counter' = r.value.counter
          /\ threads' =
                IF r.ok
                THEN [threads EXCEPT ![t] = [IdleThread EXCEPT !.pc = threads[t].pc,
                                                              !.op = "init"]]
                ELSE Panics(t, "init")
    /\ UNCHANGED <<rwlock, reactorvars>>

\* get_backend_pool(): POOL.get().expect(..)
GetBackendPool(t) ==
    /\ threads[t].pc = "idle"
    /\ threads' = IF initialized THEN Returns(t, "get", <<>>) ELSE Panics(t, "get")
    /\ UNCHANGED <<initialized, backends, counter, rwlock, reactorvars>>

\* select: let backends = self.backends.read().unwrap();
SelectRead(t) ==
    /\ threads[t].pc = "ready"
    /\ can_read(rwlock)
    /\ rwlock' = [rwlock EXCEPT !.readers = @ \cup {t}]
    /\ threads' = [threads EXCEPT ![t] = [IdleThread EXCEPT !.pc = "reading",
                                                          !.view = backends]]
    /\ UNCHANGED <<initialized, backends, counter, reactorvars>>

\* select: the is_empty test, then fetch_add and the modulo
SelectFetch(t) ==
    /\ threads[t].pc = "reading"
    /\ IF backends = <<>>
       THEN /\ threads' = [threads EXCEPT ![t].pc = "ready", ![t].op = "select",
                                          ![t].out = <<>>]
            /\ rwlock' = [rwlock EXCEPT !.readers = @ \ {t}]
            /\ UNCHANGED counter
       ELSE LET f == fetch_add(counter)
            IN /\ counter' = f.new
               /\ threads' = [threads EXCEPT ![t].pc = "fetched", ![t].k = f.old,
                                  ![t].idx = slot_index(f.old, Len(backends))]
               /\ UNCHANGED rwlock
    /\ UNCHANGED <<initialized, backends, reactorvars>>

\* select: Some(backends[idx].address); the index is bounds-checked
SelectIndex(t) ==
    /\ threads[t].pc = "fetched"
    /\ threads' =
          IF threads[t].idx < Len(backends)
          THEN [threads EXCEPT ![t].pc = "ready", ![t].op = "select",
                               ![t].out = <<backends[threads[t].idx + 1]>>,
                               ![t].k = 0, ![t].idx = 0]
          ELSE Panics(t, "select")
    /\ rwlock' = [rwlock EXCEPT !.readers = @ \ {t}]
    /\ UNCHANGED <<initialized, backends, counter, reactorvars>>

AddBackend(t, a) ==
    /\ threads[t].pc = "ready"
    /\ can_write(rwlock)
    /\ Len(backends) < MaxBackends
    /\ backends' = add_backend(backends, a)
    /\ threads' = [Returns(t, "add", <<>>) EXCEPT ![t].arg = <<a>>]
    /\ UNCHANGED <<initialized, counter, rwlock, reactorvars>>

RemoveBackend(t, a) ==
    /\ threads[t].pc = "ready"
    /\ can_write(rwlock)
    /\ LET r == remove_backend(backends, a)
       IN /\ backends' = r.list
          /\ threads' = [Returns(t, "remove", <<r.found>>) EXCEPT ![t].arg = <<a>>]
    /\ UNCHANGED <<initialized, counter, rwlock, reactorvars>>

Clear(t) ==
    /\ threads[t].pc = "ready"
    /\ can_write(rwlock)
    /\ backends' = clear(backends)
    /\ threads' = Returns(t, "clear", <<>>)
    /\ UNCHANGED <<initialized, counter, rwlock, reactorvars>>

ListBackends(t) ==
    /\ threads[t].pc = "ready"
    /\ can_read(rwlock)
    /\ threads' = Returns(t, "list", <<list_backends(backends)>>)
    /\ UNCHANGED <<initialized, backends, counter, rwlock, reactorvars>>

Count(t) ==
    /\ threads[t].pc = "ready"
    /\ can_read(rwlock)
    /\ threads' = Returns(t, "count", <<count(backends)>>)
    /\ UNCHANGED <<initialized, backends, counter, rwlock, reactorvars>>

NextRegistry ==
    \/ \E t \in Threads, L \in InitLists : InitBackendPool(t, L)
    \/ \E t \in Threads : GetBackendPool(t)
    \/ \E t \in Threads : SelectRead(t)
    \/ \E t \in Threads : SelectFetch(t)
    \/ \E t \in Threads : SelectIndex(t)
    \/ \E t \in Threads, a \in Addresses : AddBackend(t, a)
    \/ \E t \in Threads, a \in Addresses : RemoveBackend(t, a)
    \/ \E t \in Threads : Clear(t)
    \/ \E t \in Threads : ListBackends(t)
    \/ \E t \in Threads : Count(t)

SpecRegistry == InitRegistry /\ [][NextRegistry]_vars

\* The registry with one caller: thread 1 makes every call.
NextRegistryOne ==
    \/ \E L \in InitLists : InitBackendPool(1, L)
    \/ GetBackendPool(1)
    \/ SelectRead(1)
    \/ SelectFetch(1)
    \/ SelectIndex(1)
    \/ \E a \in Addresses : AddBackend(1, a)
    \/ \E a \in Addresses : RemoveBackend(1, a)
    \/ Clear(1)
    \/ ListBackends(1)
    \/ Count(1)

SpecRegistryOne == InitRegistry /\ [][NextRegistryOne]_vars

----------------------------------------------------------------------------
(* The vocabulary of the properties.                                       *)

Ids == 0..(Len(pairs) - 1)

OccupiedIds == {id \in Ids : Occupied(pairs, id)}

FreeIds == Range(freelist)

\* how many submissions of the set S are outstanding
Outstanding(S) == BagCardinality([e \in S |-> ring[e]])

\* the places that hold a descriptor
Places ==
    {[kind |-> k, at |-> id, ix |-> 0] : k \in {"client", "backend"}, id \in OccupiedIds}
    \cup {[kind |-> "cache", at |-> a, ix |-> i] :
             a \in DOMAIN cache, i \in 1..MaxFd}

HeldAt(pl) ==
    CASE pl.kind = "client" -> Pair(State, pl.at).client_fd
      [] pl.kind = "backend" -> Pair(State, pl.at).backend_fd
      [] pl.kind = "cache" ->
            IF pl.ix <= Len(cache[pl.at]) THEN cache[pl.at][pl.ix] ELSE -1

Holders(fd) == {pl \in Places : HeldAt(pl) = fd}

IsPrefix(a, b) == Len(a) <= Len(b) /\ a = SubSeq(b, 1, Len(a))

NoStale == \A e \in DOMAIN ring : ~e.stale

----------------------------------------------------------------------------
(* C1.  A request served end to end with nothing failed: the headers were  *)
(* complete, the request went to a newly connected backend, the backend    *)
(* replied and closed.  When the end of the backend's stream (a            *)
(* backend-to-client recv of 0) is handled, the backend's descriptor is in *)
(* the idle cache under the selected address and the id is in the          *)
(* free-list.                                                              *)

\* sqe is the backend-to-client recv of a pair that has served its request
CleanExchange(sqe) ==
    LET id == IdOf(sqe)
    IN /\ NoStale
       /\ Occupied(pairs, id)
       /\ LET p == Pair(State, id)
          IN /\ ~p.had_error
             /\ p.backend_address # <<>>
             /\ p.client_fd >= 1
             /\ sqe.fd >= 1
             /\ p.backend_fd = sqe.fd
             /\ socks[p.client_fd].kind = "client"
             /\ socks[sqe.fd].kind = "backend"
             /\ socks[sqe.fd].rpos = Len(socks[sqe.fd].stream)
             /\ socks[p.client_fd].out = socks[sqe.fd].stream
             /\ socks[sqe.fd].out =
                    Slice(socks[p.client_fd].stream, 0, socks[p.client_fd].rpos)

CleanRequestEndsCached ==
    [][\A sqe \in Pending("Recv", BackendToClient) :
          (CleanExchange(sqe) /\ CompleteRecv(sqe, 0)) =>
              /\ sqe.fd \in Range(Cached(cache', Pair(State, IdOf(sqe)).backend_address[1]))
              /\ IdOf(sqe) \in Range(freelist')]_vars

----------------------------------------------------------------------------
(* C2.  The slab is partitioned: the occupied ids and the ids of the       *)
(* free-list are disjoint and together are exactly 0 .. slab.len() - 1,    *)
(* after any sequence of alloc, ensure_slot, teardown and                  *)
(* recycle_slot_only.                                                      *)

SlabPartition ==
    /\ OccupiedIds \cap FreeIds = {}
    /\ OccupiedIds \cup FreeIds = Ids

----------------------------------------------------------------------------
(* C3.  recycle_slot_only(id) on an occupied slot closes the client        *)
(* descriptor, leaves the backend descriptor as it was, vacates the slot   *)
(* and puts the id in the free-list, so that a later alloc() reissues it.  *)

RecycleReturnsId ==
    [][\A id \in SlotIds :
          (Occupied(pairs, id) /\ PoolRecycle(id)) =>
              LET p == Pair(State, id)
              IN /\ p.client_fd >= 0 => p.client_fd \notin fdOpen'
                 /\ p.backend_fd >= 0 =>
                        (p.backend_fd \in fdOpen' <=> p.backend_fd \in fdOpen)
                 /\ ~Occupied(pairs', id)
                 /\ id \in Range(freelist')]_vars

----------------------------------------------------------------------------
(* C4.  The accept pipeline: between two dispatches the number of Accept   *)
(* submissions whose completion has not been handled is exactly            *)
(* initial_accepts.                                                        *)

AcceptsOutstanding ==
    ~panicked => Outstanding(Pending("Accept", 0)) = InitialAccepts

----------------------------------------------------------------------------
(* C5.  The pump cursors: for every occupied record and both its pumps,    *)
(* 0 <= bytes_already_sent <= bytes_ready_to_send <= the length of the     *)
(* pump's buffer.                                                          *)

CursorsInOrder(pump) ==
    /\ 0 <= pump.bytes_already_sent
    /\ pump.bytes_already_sent <= pump.bytes_ready_to_send
    /\ pump.bytes_ready_to_send <= Len(pump.buffer)

PumpCursors ==
    \A id \in OccupiedIds :
        /\ CursorsInOrder(Pair(State, id).pump_client_to_backend)
        /\ CursorsInOrder(Pair(State, id).pump_backend_to_client)

----------------------------------------------------------------------------
(* C6.  One operation per pump: for every id and direction, at most one    *)
(* Recv and at most one Send submission with that id and direction is      *)
(* outstanding, also across the teardown of a record and the reissue of    *)
(* its id.                                                                 *)

SingleOutstanding ==
    \A id \in SlotIds, dir \in {ClientToBackend, BackendToClient},
       name \in {"Recv", "Send"} :
        Outstanding({e \in Pending(name, dir) : IdOf(e) = id}) <= 1

----------------------------------------------------------------------------
(* C7.  Descriptors held are open and held once: every descriptor in the   *)
(* idle cache or in the client_fd or backend_fd of an occupied record is   *)
(* open, and no descriptor is held in two places.                          *)

DescriptorsValidUnique ==
    \A pl \in Places :
        HeldAt(pl) >= 0 =>
            /\ HeldAt(pl) \in fdOpen
            /\ Holders(HeldAt(pl)) = {pl}

\* a record in a reissued slot holds both its descriptors, while operations
\* of the slot's earlier occupant are outstanding and descriptors have been closed
DescriptorsHeldInReissuedSlot ==
    \E id \in OccupiedIds :
        /\ Pair(State, id).client_fd >= 1
        /\ Pair(State, id).backend_fd >= 1
        /\ \E e \in DOMAIN ring : e.stale /\ IdOf(e) = id
        /\ \E fd \in 1..Len(socks) : fd \notin fdOpen

----------------------------------------------------------------------------
(* C8.  No descriptor leaks: every descriptor the worker has obtained (by  *)
(* an accept or by creating a backend socket) and not closed is held by    *)
(* exactly one occupied record or by the idle cache.                       *)

NoDescriptorLeak ==
    ~panicked =>
        \A fd \in fdOpen :
            \/ \E pl \in Holders(fd) : pl.kind = "cache"
            \/ Cardinality({pl.at : pl \in Holders(fd)}) = 1

----------------------------------------------------------------------------
(* C9.  The response is forwarded verbatim: with no I/O error on the pair, *)
(* whenever the pair waits for more of the backend's stream (and so when   *)
(* its end is handled and the client's descriptor closed) the bytes handed *)
(* to the client's socket are exactly the bytes received from the backend, *)
(* in order, none dropped or repeated.                                     *)

ResponseVerbatim ==
    \A sqe \in Pending("Recv", BackendToClient) :
        LET id == IdOf(sqe)
        IN (/\ ~sqe.stale
            /\ Occupied(pairs, id)
            /\ ~Pair(State, id).had_error
            /\ sqe.fd >= 1
            /\ Pair(State, id).backend_fd = sqe.fd
            /\ Pair(State, id).client_fd >= 1
            /\ socks[sqe.fd].kind = "backend"
            /\ socks[Pair(State, id).client_fd].kind = "client")
           => socks[Pair(State, id).client_fd].out =
                  Slice(socks[sqe.fd].stream, 0, socks[sqe.fd].rpos)

----------------------------------------------------------------------------
(* C10.  The request is forwarded verbatim, whatever the capacities of the *)
(* header buffer and of the I/O buffers: once the headers are complete the *)
(* client-to-backend pump holds all the bytes received (ready = end -      *)
(* start, sent = 0, the data at offset 0 of its buffer), and the bytes     *)
(* handed to the backend's socket are at all times the first bytes of the  *)
(* client's stream, in order.                                              *)

\* The window starts at 0 (handle_accept), so end - start is the number of
\* bytes the client's socket has delivered.
RequestVerbatim ==
    /\ \A sqe \in Pending("ConnectBackend", 0) :
          LET id == IdOf(sqe)
          IN (/\ ~sqe.stale
              /\ Occupied(pairs, id)
              /\ Pair(State, id).client_fd >= 1
              /\ socks[Pair(State, id).client_fd].kind = "client")
             => LET pump == Pair(State, id).pump_client_to_backend
                    client == socks[Pair(State, id).client_fd]
                IN /\ pump.bytes_ready_to_send = client.rpos
                   /\ pump.bytes_already_sent = 0
                   /\ RawRead(pump.buffer, 0, pump.bytes_ready_to_send) =
                          Slice(client.stream, 0, client.rpos)
    /\ \A fd \in DOMAIN socks :
          (/\ socks[fd].kind = "backend"
           /\ socks[fd].peer >= 1
           /\ socks[socks[fd].peer].kind = "client")
          => IsPrefix(socks[fd].out, socks[socks[fd].peer].stream)

----------------------------------------------------------------------------
(* C11.  When a backend-to-client recv of the record in the slot completes *)
(* with result 0, the record's backend descriptor is put in the idle cache *)
(* under its address and stays open, the client descriptor is closed and   *)
(* the slot is vacated, exactly when, that recv apart, neither pump has a  *)
(* recv or a send in flight, both have nothing ready, and had_error is     *)
(* false.  In every other case the backend descriptor is closed and is in  *)
(* no cache entry, the client descriptor is closed, the slot is vacated    *)
(* and the id is back in the free-list.                                    *)

\* sqe is the recv in flight of the backend-to-client pump of the record
OwnBackendRecv(sqe) ==
    /\ ~sqe.stale
    /\ Occupied(pairs, IdOf(sqe))
    /\ sqe.fd >= 1
    /\ Pair(State, IdOf(sqe)).backend_fd = sqe.fd
    /\ Pair(State, IdOf(sqe)).client_fd >= 1
    /\ Pair(State, IdOf(sqe)).backend_address # <<>>

BothPumpsAtRest(p) ==
    /\ ~p.pump_client_to_backend.recv_in_flight
    /\ ~p.pump_client_to_backend.send_in_flight
    /\ p.pump_client_to_backend.bytes_ready_to_send = 0
    /\ ~p.pump_backend_to_client.send_in_flight
    /\ p.pump_backend_to_client.bytes_ready_to_send = 0

FinishEligibility ==
    [][\A sqe \in Pending("Recv", BackendToClient) :
          (OwnBackendRecv(sqe) /\ CompleteRecv(sqe, 0)) =>
              LET id == IdOf(sqe)
                  p == Pair(State, id)
                  kept == \E a \in DOMAIN cache' : sqe.fd \in Range(cache'[a])
              IN /\ ~Occupied(pairs', id)
                 /\ p.client_fd \notin fdOpen'
                 /\ IF BothPumpsAtRest(p) /\ ~p.had_error
                    THEN /\ sqe.fd \in Range(Cached(cache', p.backend_address[1]))
                         /\ sqe.fd \in fdOpen'
                    ELSE /\ ~kept
                         /\ sqe.fd \notin fdOpen'
                         /\ id \in Range(freelist')]_vars

\* a backend descriptor has been cached behind the one that was idle
FinishCachedBackend ==
    /\ pairs = <<<<>>>>
    /\ \E a \in DOMAIN cache : cache[a] = <<3, 2>>
    /\ {2, 3} \subseteq fdOpen
    /\ 1 \notin fdOpen

----------------------------------------------------------------------------
(* C12.  A completion whose tag decodes to a vacant slot is dropped: the   *)
(* slab, the free-list and the idle cache are as before, the pending       *)
(* submissions are as before but for the completed one, and no descriptor  *)
(* that was open is closed.                                                *)

\* the loop handles the completion of the submission sqe
CompletionOf(sqe) ==
    LET name == OpOf(sqe).name
    IN \/ /\ name = "Accept"
          /\ \/ Handle(Remove(State, sqe), sqe, -1, NoEnv)
             \/ \E req \in ClientStreams :
                    /\ Len(socks) < MaxFd
                    /\ Handle(NewSocket(Remove(State, sqe), ClientSock(req)), sqe,
                              Len(socks) + 1, NoEnv)
       \/ /\ name = "RecvHeaders"
          /\ \E res \in RecvResults(State, sqe), landed \in Landings(sqe),
                env \in ConnectEnvs(State) :
                 Handle(KernelRecv(Remove(State, sqe), sqe, res, landed), sqe, res, env)
       \/ /\ name = "ConnectBackend"
          /\ \E e \in SoErrors(State, IdOf(sqe)) :
                 Handle(Remove(State, sqe), sqe, 0, [NoEnv EXCEPT !.err_code = e])
       \/ /\ name = "Recv"
          /\ \E res \in RecvResults(State, sqe) : CompleteRecv(sqe, res)
       \/ /\ name = "Send"
          /\ \E res \in SendResults(State, sqe) : CompleteSend(sqe, res)

StaleCompletionDiscarded ==
    [][\A sqe \in DOMAIN ring :
          (~Occupied(pairs, IdOf(sqe)) /\ CompletionOf(sqe)) =>
              /\ pairs' = pairs
              /\ freelist' = freelist
              /\ cache' = cache
              /\ ring' = ring (-) SetToBag({sqe})
              /\ fdOpen \subseteq fdOpen']_vars

\* a torn-down connection's submission is pending for the slot it left,
\* and the slot is still vacant
StaleCompletionForVacantSlot ==
    /\ ~panicked
    /\ \E sqe \in DOMAIN ring :
          /\ sqe.stale
          /\ OpOf(sqe).name \in {"Recv", "Send"}
          /\ ~Occupied(pairs, IdOf(sqe))
          /\ IdOf(sqe) \in Range(freelist)
          /\ sqe.fd \notin fdOpen

----------------------------------------------------------------------------
(* C13.  Whatever a completion reports, it touches only the connection     *)
(* that submitted it: every other connection in the slab, the one now in   *)
(* the submitter's old slot included, keeps its record unchanged (fields   *)
(* and pump state) and keeps its descriptors open.                         *)

\* slot j holds a connection other than the one that submitted sqe
OtherConnection(sqe, j) ==
    /\ Occupied(pairs, j)
    /\ Pair(State, j).client_fd >= 1
    /\ (j # IdOf(sqe) \/ sqe.stale)

ErrorIsolation ==
    [][\A sqe \in DOMAIN ring :
          CompletionOf(sqe) =>
              \A j \in OccupiedIds :
                  OtherConnection(sqe, j) =>
                      /\ Occupied(pairs', j)
                      /\ pairs'[j + 1] = pairs[j + 1]
                      /\ Pair(State, j).client_fd \in fdOpen =>
                             Pair(State, j).client_fd \in fdOpen'
                      /\ (Pair(State, j).backend_fd >= 1
                             /\ Pair(State, j).backend_fd \in fdOpen) =>
                             Pair(State, j).backend_fd \in fdOpen']_vars

----------------------------------------------------------------------------
(* C14.  Whatever other threads add, remove or clear meanwhile, a select   *)
(* returns None exactly when the list was empty when its read lock was     *)
(* granted, otherwise an address that was in the list at that moment; the  *)
(* index it computes is inside the list, so no select panics.              *)

SelectSeesOneList ==
    \A t \in Threads :
        /\ ~(threads[t].pc = "panicked" /\ threads[t].op = "select")
        /\ threads[t].pc = "fetched" => threads[t].idx < Len(backends)
        /\ (threads[t].pc = "ready" /\ threads[t].op = "select") =>
               /\ threads[t].out = <<>> <=> threads[t].view = <<>>
               /\ threads[t].out # <<>> => threads[t].out[1] \in Range(threads[t].view)

\* a select has returned an address that another thread has removed since
SelectedThenRemoved ==
    \E t, u \in Threads :
        /\ threads[t].pc = "ready" /\ threads[t].op = "select"
        /\ threads[t].out # <<>>
        /\ threads[t].out[1] \notin Range(backends)
        /\ threads[u].op = "remove" /\ threads[u].out = <<TRUE>>

----------------------------------------------------------------------------
(* C15 as stated.  With nobody else calling the registry, a list L of      *)
(* length n > 0 and the counter at k, the next 2n selects return           *)
(* L[k mod n], L[(k+1) mod n], ..., the sums taken in the integers; from a *)
(* new registry [A, B, C] six selects return A, B, C, A, B, C and, B then  *)
(* removed, four more return A, C, A, C.                                   *)

\* what m consecutive calls of select return, from the registry in s
RECURSIVE Selections(_, _)
Selections(s, m) ==
    IF m = 0 THEN <<>>
    ELSE LET r == select(s) IN <<r.addr>> \o Selections(r.st, m - 1)

\* the registry in s after m consecutive calls of select
RECURSIVE AfterSelections(_, _)
AfterSelections(s, m) ==
    IF m = 0 THEN s ELSE AfterSelections(select(s).st, m - 1)

\* the registry is set and no thread is inside select
Quiescent ==
    /\ initialized
    /\ rwlock = Unlocked

ExampleOrder ==
    LET A == InitialBackends[1]
        B == InitialBackends[2]
        C == InitialBackends[3]
        s6 == AfterSelections(State, 6)
        removed == [s6 EXCEPT !.backends = remove_backend(s6.backends, B).list]
    IN (Quiescent /\ backends = InitialBackends /\ counter = 0) =>
           /\ Selections(State, 6) = <<<<A>>, <<B>>, <<C>>, <<A>>, <<B>>, <<C>>>>
           /\ Selections(removed, 4) = <<<<A>>, <<C>>, <<A>>, <<C>>>>

RoundRobinOrder ==
    /\ ExampleOrder
    /\ (Quiescent /\ backends # <<>>) =>
           LET n == Len(backends)
           IN Selections(State, 2 * n) =
                  [i \in 1..(2 * n) |-> <<backends[((counter + i - 1) % n) + 1]>>]

(* C15, amended.  The same with the sums taken in the counter's word of w *)
(* bits: the i-th next select returns L[((k+i-1) mod 2^w) mod n], so the   *)
(* order is L[k mod n], L[(k+1) mod n], ... until a select fetches         *)
(* 2^w - 1, and the select after that one returns L[0].                    *)

RoundRobinUntilWrap ==
    /\ ExampleOrder
    /\ (Quiescent /\ backends # <<>>) =>
           LET n == Len(backends)
               got == Selections(State, 2 * n)
           IN \A i \in 1..(2 * n) :
                  got[i] = <<backends[(((counter + i - 1) % (2 ^ CounterBits)) % n) + 1]>>

\* the counter is about to wrap on a list whose length does not divide 2^w
RoundRobinAtWrap ==
    /\ Quiescent
    /\ backends = InitialBackends
    /\ counter = 2 ^ CounterBits - 1
    /\ \E t \in Threads : threads[t].op = "select" /\ threads[t].pc = "ready"

----------------------------------------------------------------------------
(* C16.  Every select adds one to the counter (in the counter's word),     *)
(* also when the list is empty and the select returns None.                *)

SelectAlwaysIncrements ==
    [][\A t \in Threads :
          SelectFetch(t) => counter' = (counter + 1) % (2 ^ CounterBits)]_vars

----------------------------------------------------------------------------
(* C17.  A select that fetches the largest value of the counter's word     *)
(* from a list that is not empty wraps the counter to 0, computes an index *)
(* inside the list and returns the address there; it does not panic.       *)

CounterMax == 2 ^ CounterBits - 1

CounterWrapKeepsIndexValid ==
    [][\A t \in Threads :
          /\ (SelectFetch(t) /\ backends # <<>> /\ counter = CounterMax) =>
                 /\ counter' = 0
                 /\ threads'[t].pc = "fetched"
                 /\ threads'[t].idx \in 0..(Len(backends) - 1)
          /\ (SelectIndex(t) /\ threads[t].k = CounterMax) =>
                 /\ threads'[t].pc = "ready"
                 /\ threads'[t].out = <<backends[(CounterMax % Len(backends)) + 1]>>]_vars

\* a select has fetched the largest value and left the counter at 0
CounterWrapped ==
    \E t \in Threads :
        /\ threads[t].pc = "fetched"
        /\ threads[t].k = CounterMax
        /\ counter = 0
        /\ Len(backends) = MaxBackends

----------------------------------------------------------------------------
(* C18.  add appends the address; remove drops the first entry equal to    *)
(* the address, keeps the others in order and returns true, or finds none, *)
(* leaves the list as it is and returns false; clear leaves the list       *)
(* empty; list and count return the list and its length; none of them      *)
(* changes the counter, and list and count do not change the list.         *)

\* L without its entry at position i
Without(L, i) == [j \in 1..(Len(L) - 1) |-> IF j < i THEN L[j] ELSE L[j + 1]]

RegistryMutations ==
    [][\A t \in Threads :
          /\ \A a \in Addresses :
                /\ AddBackend(t, a) =>
                       /\ Len(backends') = Len(backends) + 1
                       /\ backends'[Len(backends')] = a
                       /\ SubSeq(backends', 1, Len(backends)) = backends
                       /\ counter' = counter
                /\ RemoveBackend(t, a) =>
                       /\ counter' = counter
                       /\ threads'[t].out = <<a \in Range(backends)>>
                       /\ a \notin Range(backends) => backends' = backends
                       /\ a \in Range(backends) =>
                              \E i \in 1..Len(backends) :
                                  /\ backends[i] = a
                                  /\ \A j \in 1..(i - 1) : backends[j] # a
                                  /\ backends' = Without(backends, i)
          /\ Clear(t) => (backends' = <<>> /\ counter' = counter)
          /\ ListBackends(t) =>
                 /\ threads'[t].out = <<backends>>
                 /\ backends' = backends /\ counter' = counter
          /\ Count(t) =>
                 /\ threads'[t].out = <<Len(backends)>>
                 /\ backends' = backends /\ counter' = counter]_vars

\* a remove has taken the first of two equal entries and kept the second
RemovedFirstOfTwo ==
    \E t \in Threads :
        /\ threads[t].op = "remove"
        /\ threads[t].arg = <<InitialBackends[1]>>
        /\ threads[t].out = <<TRUE>>
        /\ backends = <<InitialBackends[2], InitialBackends[1]>>

----------------------------------------------------------------------------
(* C19.  The first init_backend_pool sets the registry; any later one      *)
(* panics and leaves the list and the counter of the registry as they      *)
(* were; get_backend_pool before any init panics.                          *)

RegistryInitOnce ==
    [][\A t \in Threads :
          /\ \A L \in InitLists :
                InitBackendPool(t, L) =>
                    /\ initialized'
                    /\ IF initialized
                       THEN /\ threads'[t].pc = "panicked"
                            /\ backends' = backends
                            /\ counter' = counter
                       ELSE /\ threads'[t].pc # "panicked"
                            /\ backends' = L
                            /\ counter' = 0
          /\ GetBackendPool(t) =>
                 /\ threads'[t].pc = (IF initialized THEN "ready" ELSE "panicked")
                 /\ UNCHANGED <<initialized, backends, counter>>]_vars

\* a second init has panicked; the registry still has a list with entries
\* and a counter that has moved, which no init stores
SecondInitPanicked ==
    \E t \in Threads :
        /\ threads[t].pc = "panicked" /\ threads[t].op = "init"
        /\ initialized
        /\ backends # <<>>
        /\ counter > 0

----------------------------------------------------------------------------
(* C20.  No address ever has more than MAX_CACHED descriptors in the idle  *)
(* cache.  A return for an address with fewer than MAX_CACHED cached puts  *)
(* the descriptor at the back of that address's deque and leaves it open;  *)
(* a return for an address with MAX_CACHED cached closes the descriptor    *)
(* and leaves every deque as it was.                                       *)

CacheBounded == \A a \in DOMAIN cache : Len(cache[a]) <= MAX_CACHED

ReturnAppendsOrCloses ==
    \A addr \in CacheAddresses :
        CacheReturn(addr) =>
            LET fd == Len(socks) + 1
                before == Cached(cache, addr)
            IN /\ \A a \in CacheAddresses \ {addr} :
                      Cached(cache', a) = Cached(cache, a)
               /\ IF Len(before) < MAX_CACHED
                  THEN /\ Cached(cache', addr) = Append(before, fd)
                       /\ fd \in fdOpen'
                  ELSE /\ Cached(cache', addr) = before
                       /\ fd \notin fdOpen'

IdleCacheBound == []CacheBounded /\ [][ReturnAppendsOrCloses]_vars

\* MAX_CACHED descriptors are cached for the only address that has an
\* entry, and the descriptor returned after them has been closed
CacheFullOneClosed ==
    /\ DOMAIN cache = {InitialBackends[1]}
    /\ cache[InitialBackends[1]] = [i \in 1..MAX_CACHED |-> i]
    /\ Len(socks) = MAX_CACHED + 1
    /\ fdOpen = 1..MAX_CACHED

----------------------------------------------------------------------------
(* C21.  A borrow for an address that has descriptors cached takes the one *)
(* at the front, the earliest returned: the caller gets it (and here       *)
(* closes it when done), the rest of the deque stays in order, and the     *)
(* descriptor is in no deque afterwards.  A borrow for an address with no  *)
(* entry or an empty deque gives None and changes nothing.  The deques of  *)
(* other addresses are never changed.                                      *)

BorrowTakesFront ==
    [][\A addr \in CacheAddresses :
          CacheBorrow(addr) =>
              LET before == Cached(cache, addr)
              IN /\ \A a \in CacheAddresses \ {addr} :
                        Cached(cache', a) = Cached(cache, a)
                 /\ IF before = <<>>
                    THEN cache' = cache /\ fdOpen' = fdOpen
                    ELSE /\ Cached(cache', addr) = Tail(before)
                         /\ fdOpen' = fdOpen \ {Head(before)}
                         /\ \A a \in DOMAIN cache' :
                                Head(before) \notin Range(cache'[a])]_vars

\* the two earliest descriptors of the first address have been borrowed
\* while the second address has one cached
BorrowedTwoFromFront ==
    /\ Len(Cached(cache, InitialBackends[1])) >= 2
    /\ Head(cache[InitialBackends[1]]) = 3
    /\ {1, 2} \cap fdOpen = {}
    /\ Len(Cached(cache, InitialBackends[2])) = 1

----------------------------------------------------------------------------
(* The tag codec by itself.  A caller packs any id and any operation of    *)
(* the enum, ids one past the id field included, and unpacks the tag; and  *)
(* the loop is handed a completion whose tag nobody packed, with an opcode *)
(* that OpCode::try_from_u8 does not know.                                 *)

\* every value of the Operation enum
ValidOperations ==
    {Op("Accept", 0), Op("ConnectBackend", 0), Op("RecvHeaders", 0)} \cup
    {Op(n, d) : n \in {"Recv", "Send", "Timeout"},
                d \in {ClientToBackend, BackendToClient}}

\* the ids that fit the id field, and the first one that does not
FittingIds == 0..(2^ID_BITS - 1)
CodecIds == 0..(2^ID_BITS)

\* opcodes outside 1..6: zero, the first unused one and the largest
UnknownOpcodes == {0, 7, 2^OPCODE_BITS - 1}

\* pack_user_data(id, op) and unpack_user_data of its tag.  With debug
\* assertions on, an id that does not fit the id field panics.
PackTag(id, op) ==
    /\ ~panicked
    /\ \E debug \in BOOLEAN :
          IF debug /\ id \notin FittingIds
          THEN /\ panicked' = TRUE
               /\ observed' = [call |-> "pack", id |-> id, op |-> op,
                               tag |-> -1, back |-> <<>>]
          ELSE /\ panicked' = panicked
               /\ observed' = [call |-> "pack", id |-> id, op |-> op,
                               tag |-> pack_user_data(id, op),
                               back |-> unpack_user_data(pack_user_data(id, op))]
    /\ UNCHANGED <<pairs, freelist, cache, ring, counter, backends, socks,
                   fdOpen, initialized, rwlock, threads>>

\* run_worker takes (tag, res) from the completion queue, where the tag
\* names slot id with an opcode outside 1..6
CompleteUnknown(id, opc, dir) ==
    /\ BagCardinality(ring) <= InitialAccepts + 1
    /\ Handle(State, [tag |-> id * 2^(OPCODE_BITS + DIR_BITS)
                                + dir * 2^OPCODE_BITS + opc], -1, NoEnv)

NextCodec ==
    \/ \E id \in CodecIds, op \in ValidOperations : PackTag(id, op)
    \/ \E id \in 0..(MaxSlab - 1), opc \in UnknownOpcodes, dir \in {0, 1} :
           CompleteUnknown(id, opc, dir)

SpecCodec == Init /\ [][NextCodec]_vars

----------------------------------------------------------------------------
(* C22.  For every id that fits the id field and every operation of the    *)
(* enum, unpacking the packed tag gives the id and the operation back, and *)
(* no other fitting id and operation pack to the same tag.                 *)

TagRoundTrip ==
    (observed # <<>> /\ observed.id \in FittingIds /\ observed.tag >= 0) =>
        /\ observed.back = [id |-> observed.id, op |-> observed.op]
        /\ \A id \in FittingIds, op \in ValidOperations :
               pack_user_data(id, op) = observed.tag =>
                   id = observed.id /\ op = observed.op

\* the largest fitting id was packed with a backend-to-client timeout and
\* came back
LargestIdRoundTrip ==
    /\ observed # <<>>
    /\ observed.id = 2^ID_BITS - 1
    /\ observed.op = Op("Timeout", BackendToClient)
    /\ observed.tag = 2^TagBits - 2^OPCODE_BITS + 5
    /\ observed.back = [id |-> 2^ID_BITS - 1, op |-> Op("Timeout", BackendToClient)]

----------------------------------------------------------------------------
(* C23.  A completion whose tag carries an opcode outside 1..6 aborts the  *)
(* worker: the step that takes it from the completion queue ends with the  *)
(* worker panicked and with no handler having run (no submission queued,   *)
(* no slot changed).                                                       *)

UnknownOpcodeAborts ==
    [][\A id \in 0..(MaxSlab - 1), opc \in UnknownOpcodes, dir \in {0, 1} :
          CompleteUnknown(id, opc, dir) =>
              panicked' /\ ring' = ring /\ pairs' = pairs]_vars

----------------------------------------------------------------------------
(* The loop with the header step observed: what peek_request_headers said  *)
(* of the window at the last RecvHeaders completion, and for which slot.   *)
(* One more client is served here, whose request never ends its headers.   *)

\* "G  HTTP/1.1\r\nhhhhhhh": as many bytes as the header buffer holds, after
\* which the client sends nothing
RequestUnending ==
    <<71, SP, SP, 72, 84, 84, 80, 47, 49, 46, 49, CR, LF>> \o [i \in 1..(HdrCap - 13) |-> 104]

HeaderStreams == ClientStreams \cup {RequestUnending}

HeadersAccept ==
    \E sqe \in Pending("Accept", 0), req \in HeaderStreams :
        /\ Len(socks) < MaxFd
        /\ LET s1 == NewSocket(Remove(State, sqe), ClientSock(req))
           IN /\ Len(dispatch(s1, sqe.tag, Len(socks) + 1, NoEnv).pairs) <= MaxSlab
              /\ Handle(s1, sqe, Len(socks) + 1, NoEnv)

\* what handle_recv_headers learns from the parser for this completion:
\* "none" when it does not get to ask
Verdict(s, id, res) ==
    IF res <= 0 \/ ~Occupied(s.pairs, id) THEN "none"
    ELSE LET hb == wrote(Pair(s, id).header_buffer, res)
         IN IF hb.end > Len(hb.buf) THEN "none"
            ELSE peek_request_headers(window(hb)).kind

HeadersStep(sqe, res, landed, env) ==
    LET s1 == KernelRecv(Remove(State, sqe), sqe, res, landed)
    IN /\ ~panicked
       /\ CommitReactor(Release(dispatch(s1, sqe.tag, res, env)))
       /\ observed' = [call |-> "recv_headers", id |-> IdOf(sqe),
                       verdict |-> Verdict(s1, IdOf(sqe), res)]
       /\ UNCHANGED <<initialized, rwlock, threads>>

HeadersRecvHeaders ==
    \E sqe \in Pending("RecvHeaders", 0) :
        \E res \in RecvResults(State, sqe), landed \in Landings(sqe),
           env \in ConnectEnvs(State) :
            HeadersStep(sqe, res, landed, env)

NextHeaders ==
    \/ CompleteAcceptFail
    \/ HeadersAccept
    \/ HeadersRecvHeaders
    \/ CompleteConnectBackend
    \/ CompleteRecvClientToBackend
    \/ CompleteSendClientToBackend
    \/ CompleteRecvBackendToClient
    \/ CompleteSendBackendToClient

SpecHeaders == Init /\ [][NextHeaders]_vars

----------------------------------------------------------------------------
(* C24.  When the parser reports a malformed request at a RecvHeaders      *)
(* completion, that step closes the record's client descriptor, vacates    *)
(* the slot and appends its id to the free-list; it leaves the registry's  *)
(* counter and list and the idle cache as they were, creates no socket and *)
(* queues no submission.                                                   *)

MalformedTearsDown ==
    [][\A sqe \in Pending("RecvHeaders", 0) :
         \A res \in RecvResults(State, sqe), landed \in Landings(sqe),
            env \in ConnectEnvs(State) :
             (/\ Verdict(KernelRecv(Remove(State, sqe), sqe, res, landed),
                         IdOf(sqe), res) = "Malformed"
              /\ HeadersStep(sqe, res, landed, env)) =>
                 LET id == IdOf(sqe)
                     client_fd == Pair(State, id).client_fd
                 IN /\ ~Occupied(pairs', id)
                    /\ freelist' = Append(freelist, id)
                    /\ client_fd >= 0 => client_fd \notin fdOpen'
                    /\ counter' = counter
                    /\ backends' = backends
                    /\ cache' = cache
                    /\ Len(socks') = Len(socks)
                    /\ BagCardinality(ring') = BagCardinality(ring) - 1]_vars

\* the first connection sent a malformed request: its slot is vacant, its
\* id is the last of the free-list, its descriptor is closed, and nothing
\* was selected or connected
MalformedTornDown ==
    /\ observed # <<>>
    /\ observed.verdict = "Malformed"
    /\ ~Occupied(pairs, observed.id)
    /\ freelist # <<>>
    /\ freelist[Len(freelist)] = observed.id
    /\ Len(socks) = 1
    /\ fdOpen = {}
    /\ counter = 0

----------------------------------------------------------------------------
(* C25.  A connection whose header buffer is full and whose window holds   *)
(* no CRLFCRLF is torn down by the completion that filled it: no record    *)
(* with such a buffer stays in its slot, waiting on a header receive that  *)
(* has no tail to receive into.                                            *)

WaitsWithoutTail(id) ==
    /\ Occupied(pairs, id)
    /\ LET hb == Pair(State, id).header_buffer
       IN /\ hb.end = Len(hb.buf)
          /\ Find(window(hb), <<CR, LF, CR, LF>>) < 0
          /\ \E e \in Pending("RecvHeaders", 0) :
                 IdOf(e) = id /\ e.len = 0 /\ ~e.stale

FullHeaderBufferTornDown ==
    \A id \in 0..(MaxSlab - 1) : ~WaitsWithoutTail(id)

----------------------------------------------------------------------------
(* The header parser by itself: peek_request_headers is called on a window *)
(* and what it returns is observed.  The windows are request lines of one  *)
(* to four fields, with an empty or a one-byte method and target and a     *)
(* version of seven or eight bytes, followed by no header line or one, and *)
(* ended by nothing, by one CRLF, or by the blank line and a body that     *)
(* holds a second blank line; and every prefix of such a window.           *)

VersionLong == <<72, 84, 84, 80, 47, 49, 46, 49>>
VersionShort == <<72, 84, 84, 80, 47, 49, 46>>

RECURSIVE Join(_)
Join(fields) ==
    IF Len(fields) = 1 THEN fields[1]
    ELSE fields[1] \o <<SP>> \o Join(Tail(fields))

RequestLines ==
    LET methods == {<<>>, <<71>>}
        targets == {<<>>, <<47>>}
        versions == {VersionLong, VersionShort}
    IN {Join(<<m>>) : m \in methods}
       \cup {Join(<<m, p>>) : m \in methods, p \in targets}
       \cup {Join(<<m, p, v>>) : m \in methods, p \in targets, v \in versions}
       \cup {Join(<<m, p, v, <<120>>>>) : m \in methods, p \in targets, v \in versions}

\* no header line, "h", "Host: a", "Content-Length: 5"
HeaderSections ==
    {<<>>,
     <<CR, LF, 104>>,
     <<CR, LF, 72, 111, 115, 116, COLON, SP, 97>>,
     <<CR, LF, 67, 111, 110, 116, 101, 110, 116, 45, 76, 101, 110, 103, 116, 104,
       COLON, SP, 53>>}

WindowEnds == {<<>>, <<CR, LF>>, <<CR, LF, CR, LF, 65, CR, LF, CR, LF>>}

WholeWindows ==
    {l \o h \o e : l \in RequestLines, h \in HeaderSections, e \in WindowEnds}

ParserWindows ==
    UNION {{SubSeq(w, 1, k) : k \in 0..Len(w)} : w \in WholeWindows}

Peek(w) ==
    /\ observed' = [call |-> "peek", window |-> w,
                    result |-> peek_request_headers(w)]
    /\ UNCHANGED <<pairs, freelist, cache, ring, counter, backends, socks,
                   fdOpen, panicked, initialized, rwlock, threads>>

NextParser == \E w \in ParserWindows : Peek(w)

SpecParser == InitRegistry /\ [][NextParser]_vars

----------------------------------------------------------------------------
(* C26.  peek_request_headers answers Incomplete exactly for the windows   *)
(* with no CRLFCRLF.  For the others, with the first line (the bytes up to *)
(* the first CRLF) split on single spaces, it answers Malformed exactly    *)
(* when there are fewer than three fields, the method is empty or the      *)
(* version is shorter than 8 bytes, and Complete otherwise, also when the  *)
(* first line is followed directly by the blank line.                      *)

ClassifiedAs(w) ==
    LET line == Slice(w, 0, Find(w, <<CR, LF>>))
        fields == Split(line, SP)
    IN IF Find(w, <<CR, LF, CR, LF>>) < 0 THEN "Incomplete"
       ELSE IF Len(fields) < 3 THEN "Malformed"
       ELSE IF fields[1] = <<>> \/ Len(fields[3]) < 8 THEN "Malformed"
       ELSE "Complete"

ParserClassification ==
    observed # <<>> => observed.result.kind = ClassifiedAs(observed.window)

----------------------------------------------------------------------------
(* C27.  For every window and every prefix of it, the parser's result on   *)
(* the prefix is its result on the window or Incomplete; the result is a   *)
(* function of the window alone.                                           *)

PrefixStable ==
    observed # <<>> =>
        \A k \in 0..Len(observed.window) :
            LET r == peek_request_headers(SubSeq(observed.window, 1, k))
            IN r = observed.result \/ r = Incomplete

\* a window with a Host header and two blank lines was parsed as Complete
\* up to the first of them
TwoBlankLinesParsed ==
    /\ observed # <<>>
    /\ observed.result.kind = "Complete"
    /\ observed.result.host = <<<<97>>>>
    /\ observed.result.header_block_end_index < Len(observed.window) - 4
    /\ FindLast(observed.window, <<CR, LF, CR, LF>>)
           > Find(observed.window, <<CR, LF, CR, LF>>)

----------------------------------------------------------------------------
(* The loop with a submission queue that can fill.  The worker is started  *)
(* with a ring_size of its configuration; IoUring::new gives the queue the *)
(* next power of two of entries.  Every iteration of the loop submits what *)
(* is queued and here finds one completion, so that the queue is empty     *)
(* when the handler starts; a push into a full queue is the panic of       *)
(* expect("SQ full (..)"), which here leaves the handler's other effects   *)
(* in place.                                                               *)

\* IoUring::new(ring_size): the entries of the submission queue
sq_entries(ring_size) ==
    CHOOSE e \in {2^k : k \in 0..ring_size} :
        e >= ring_size /\ \A k \in 0..ring_size : 2^k >= ring_size => e <= 2^k

\* the submissions a step has queued: one completion left the ring
Queued(before, after) == BagCardinality(after) - (BagCardinality(before) - 1)

SubmissionQueue(s0, s1) ==
    IF BagCardinality(s1.ring) - BagCardinality(s0.ring) > observed.entries
    THEN Panic(s1) ELSE s1

InitRing ==
    \E ring_size \in 1..MaxRingSize :
        LET s == Prime(Empty, InitialAccepts)
            s1 == IF InitialAccepts > sq_entries(ring_size) THEN Panic(s) ELSE s
        IN /\ pairs = s1.pairs
           /\ freelist = s1.freelist
           /\ cache = s1.cache
           /\ ring = s1.ring
           /\ counter = s1.counter
           /\ backends = s1.backends
           /\ socks = s1.socks
           /\ fdOpen = s1.fdOpen
           /\ panicked = s1.panicked
           /\ observed = [call |-> "IoUring::new", ring_size |-> ring_size,
                          entries |-> sq_entries(ring_size)]
           /\ initialized = TRUE
           /\ rwlock = Unlocked
           /\ threads = [t \in Threads |-> IdleThread]

\* one iteration of the loop: submit_and_wait, then the handler of the
\* completion, whose pushes go to the emptied queue
RingHandle(s, sqe, res, env) ==
    /\ ~panicked
    /\ Commit(Release(SubmissionQueue(s, dispatch(s, sqe.tag, res, env))))

RingAcceptFail ==
    \E sqe \in Pending("Accept", 0) :
        RingHandle(Remove(State, sqe), sqe, -1, NoEnv)

RingAccept ==
    \E sqe \in Pending("Accept", 0), req \in ClientStreams :
        /\ Len(socks) < MaxFd
        /\ LET s1 == NewSocket(Remove(State, sqe), ClientSock(req))
           IN /\ Len(dispatch(s1, sqe.tag, Len(socks) + 1, NoEnv).pairs) <= MaxSlab
              /\ RingHandle(s1, sqe, Len(socks) + 1, NoEnv)

RingRecvHeaders ==
    \E sqe \in Pending("RecvHeaders", 0) :
        \E res \in RecvResults(State, sqe), landed \in Landings(sqe),
           env \in ConnectEnvs(State) :
            RingHandle(KernelRecv(Remove(State, sqe), sqe, res, landed), sqe, res, env)

RingConnectBackend ==
    \E sqe \in Pending("ConnectBackend", 0) :
        \E e \in SoErrors(State, IdOf(sqe)) :
            RingHandle(Remove(State, sqe), sqe, 0, [NoEnv EXCEPT !.err_code = e])

RingRecv ==
    \E dir \in {ClientToBackend, BackendToClient} :
        \E sqe \in Pending("Recv", dir) :
            \E res \in RecvResults(State, sqe), landed \in Landings(sqe) :
                RingHandle(KernelRecv(Remove(State, sqe), sqe, res, landed),
                           sqe, res, NoEnv)

RingSend ==
    \E dir \in {ClientToBackend, BackendToClient} :
        \E sqe \in Pending("Send", dir) :
            \E res \in SendResults(State, sqe) :
                RingHandle(KernelSend(Remove(State, sqe), sqe, res), sqe, res, NoEnv)

NextRing ==
    \/ RingAcceptFail
    \/ RingAccept
    \/ RingRecvHeaders
    \/ RingConnectBackend
    \/ RingRecv
    \/ RingSend

SpecRing == InitRing /\ [][NextRing]_vars

----------------------------------------------------------------------------
(* C28.  Whatever positive ring_size the worker is started with, no step   *)
(* of the loop ends in the panic of a full submission queue: a handler     *)
(* never queues more submissions than the queue has entries.               *)

SubmissionQueueNeverFull ==
    [][~(panicked' /\ Queued(ring, ring') > observed.entries)]_vars

----------------------------------------------------------------------------
(* C29.  alloc() never returns the id of an occupied slot: the slot of the *)
(* id it returns is vacant when it returns it, every id on the free-list   *)
(* names a vacant slot (it was pushed by the teardown of the record that   *)
(* held it), and the record in slot i carries id i, so that no two records *)
(* hold the same id.                                                       *)

FreeListVacant ==
    /\ \A i \in 1..Len(freelist) : ~Occupied(pairs, freelist[i])
    /\ \A id \in SlotIds : Occupied(pairs, id) => Pair(State, id).id = id

AllocGivesVacant ==
    PoolAlloc => /\ ~Occupied(pairs, alloc(State).id)
                 /\ Occupied(pairs', alloc(State).id)

AllocNeverOccupied == []FreeListVacant /\ [][AllocGivesVacant]_vars

\* id 0 has been reissued: the only slot holds a record whose client is
\* the second descriptor, after the record of the first was torn down
IdReissuedAfterTeardown ==
    /\ Len(pairs) = 1
    /\ Occupied(pairs, 0)
    /\ Pair(State, 0).client_fd = 2
    /\ 1 \notin fdOpen
    /\ freelist = <<>>

----------------------------------------------------------------------------
(* C30.  A completion is applied only to the record that submitted it: the *)
(* completion of a submission whose record has left the slot (torn down or *)
(* recycled while the operation was in flight) is dropped also when the    *)
(* slot has a later occupant; it changes no record, frees no id and queues *)
(* nothing.                                                                *)

CompletionsMatchOccupant ==
    [][\A sqe \in DOMAIN ring :
          (sqe.stale /\ Occupied(pairs, IdOf(sqe)) /\ CompletionOf(sqe)) =>
              /\ pairs' = pairs
              /\ freelist' = freelist
              /\ ring' = ring (-) SetToBag({sqe})]_vars

----------------------------------------------------------------------------
(* C31.  Every pump of every occupied record is half-duplex: while its     *)
(* recv is in flight its buffer is drained (ready = 0 and sent = 0) and no *)
(* send of it is in flight; no Recv submission for it names an empty range *)
(* (none is queued while ready equals the capacity); and a Recv and a Send *)
(* of the same pump are never outstanding together.  The submissions of a  *)
(* pump are those its record queued, not those of a former occupant.       *)

PumpOf(id, dir) ==
    IF dir = ClientToBackend THEN Pair(State, id).pump_client_to_backend
    ELSE Pair(State, id).pump_backend_to_client

HalfDuplexAt(id, dir) ==
    LET pump == PumpOf(id, dir)
        recvs == {e \in Pending("Recv", dir) : IdOf(e) = id /\ ~e.stale}
        sends == {e \in Pending("Send", dir) : IdOf(e) = id /\ ~e.stale}
    IN /\ pump.recv_in_flight =>
              /\ pump.bytes_ready_to_send = 0
              /\ pump.bytes_already_sent = 0
              /\ ~pump.send_in_flight
       /\ \A e \in recvs : e.len > 0
       /\ recvs = {} \/ sends = {}
       /\ recvs # {} => pump.bytes_ready_to_send = 0 /\ pump.bytes_already_sent = 0

HalfDuplexPump ==
    \A id \in OccupiedIds, dir \in {ClientToBackend, BackendToClient} :
        HalfDuplexAt(id, dir)

----------------------------------------------------------------------------
(* C32.  A send completion with res >= 0 for an occupied slot clears the   *)
(* pump's send_in_flight and advances sent by res.  If sent is then below  *)
(* ready, one Send is queued for the pump's write descriptor, covering     *)
(* buffer[sent..ready), and it is in flight again; otherwise both cursors  *)
(* are 0 and one Recv for the whole buffer is queued on the same pump,     *)
(* whose recv_in_flight is set.  The other pump of the record is as        *)
(* before.                                                                 *)

PumpIn(ps, id, dir) ==
    IF dir = ClientToBackend THEN ps[id + 1][1].pump_client_to_backend
    ELSE ps[id + 1][1].pump_backend_to_client

OtherDirection(dir) ==
    IF dir = ClientToBackend THEN BackendToClient ELSE ClientToBackend

SendCompletionAt(sqe, res) ==
    LET id == IdOf(sqe)
        dir == OpOf(sqe).dir
        pump == PumpIn(pairs, id, dir)
        sent == pump.bytes_already_sent + res
        ready == pump.bytes_ready_to_send
        after == PumpIn(pairs', id, dir)
    IN /\ Occupied(pairs', id)
       /\ PumpIn(pairs', id, OtherDirection(dir)) = PumpIn(pairs, id, OtherDirection(dir))
       /\ BagCardinality(ring') = BagCardinality(ring)
       /\ IF sent < ready
          THEN /\ after = [pump EXCEPT !.bytes_already_sent = sent,
                                       !.send_in_flight = TRUE]
               /\ \E e \in DOMAIN ring' :
                      /\ IdOf(e) = id /\ OpOf(e) = Op("Send", dir)
                      /\ e.fd = pump.write_fd
                      /\ e.off = sent /\ e.len = ready - sent
               /\ Copies(ring', sqe) = Copies(ring, sqe) - 1
          ELSE /\ after = [pump EXCEPT !.bytes_already_sent = 0,
                                       !.bytes_ready_to_send = 0,
                                       !.send_in_flight = FALSE,
                                       !.recv_in_flight = TRUE]
               /\ \E e \in DOMAIN ring' :
                      /\ IdOf(e) = id /\ OpOf(e) = Op("Recv", dir)
                      /\ e.fd = pump.read_fd
                      /\ e.off = 0 /\ e.len = Len(pump.buffer)
                      /\ Copies(ring', e) = Copies(ring, e) + 1

SendCompletionHandled ==
    [][\A dir \in {ClientToBackend, BackendToClient} :
         \A sqe \in Pending("Send", dir) :
             \A res \in SendResults(State, sqe) :
                 (res >= 0 /\ Occupied(pairs, IdOf(sqe)) /\ CompleteSend(sqe, res))
                     => SendCompletionAt(sqe, res)]_vars

----------------------------------------------------------------------------
(* C33.  Every recv or send completion with a result that is not positive, *)
(* but for a recv of 0 in the backend-to-client direction, tears down the  *)
(* record in its slot: the slot is vacant, its id is appended to the       *)
(* free-list, the record's client and backend descriptors are closed, and  *)
(* the idle cache is as before.  The results are those the kernel gives:   *)
(* a send of a range that is not empty completes with a negative result or *)
(* with a positive count.                                                  *)

TornDownBy(sqe) ==
    LET id == IdOf(sqe)
        p == Pair(State, id)
    IN /\ ~Occupied(pairs', id)
       /\ freelist' = Append(freelist, id)
       /\ p.client_fd >= 0 => p.client_fd \notin fdOpen'
       /\ p.backend_fd >= 0 => p.backend_fd \notin fdOpen'
       /\ cache' = cache

----------------------------------------------------------------------------
(* C34.  A ConnectBackend completion for an occupied slot, by the socket's *)
(* error status: EINPROGRESS queues one more ConnectBackend no-op and      *)
(* leaves the slab, the free-list and the cache as they were; any other    *)
(* status but zero tears the record down, its backend descriptor closed    *)
(* and not cached; zero wires the pumps across (client to backend reads    *)
(* the client and writes the backend, backend to client the reverse) and   *)
(* the Send and Recv it queues carry the backend descriptor.               *)

ConnectOutcomeAt(sqe, e) ==
    LET id == IdOf(sqe)
        p == Pair(State, id)
    IN IF e = EINPROGRESS
       THEN /\ pairs' = pairs /\ freelist' = freelist /\ cache' = cache
            /\ BagCardinality(ring') = BagCardinality(ring)
            /\ \E n \in Pending("ConnectBackend", 0)' : IdOf(n) = id /\ ~n.stale
       ELSE IF e # 0 THEN TornDownBy(sqe)
       ELSE /\ Occupied(pairs', id)
            /\ LET c2b == PumpIn(pairs', id, ClientToBackend)
                   b2c == PumpIn(pairs', id, BackendToClient)
               IN /\ c2b.read_fd = p.client_fd /\ c2b.write_fd = p.backend_fd
                  /\ b2c.read_fd = p.backend_fd /\ b2c.write_fd = p.client_fd
                  /\ \A n \in DOMAIN ring' :
                         (IdOf(n) = id /\ Copies(ring', n) > Copies(ring, n)) =>
                             /\ OpOf(n) \in {Op("Send", ClientToBackend),
                                             Op("Recv", BackendToClient)}
                             /\ n.fd = p.backend_fd

ConnectOutcomeHandled ==
    [][\A sqe \in Pending("ConnectBackend", 0) :
          \A e \in SoErrors(State, IdOf(sqe)) :
              (/\ Occupied(pairs, IdOf(sqe))
               /\ WorkerHandle(Remove(State, sqe), sqe, 0, [NoEnv EXCEPT !.err_code = e]))
                  => ConnectOutcomeAt(sqe, e)]_vars

----------------------------------------------------------------------------
(* C35.  Whenever a step places a backend descriptor in the idle cache, no *)
(* submission on that descriptor is outstanding in the ring afterwards,    *)
(* the record that held it had had_error false, and both pumps of that     *)
(* record had nothing ready to send.                                       *)

CachedFds == UNION {Range(cache[a]) : a \in DOMAIN cache}

CacheHealthAtReturn ==
    [][\A fd \in 1..MaxFd :
          (fd \notin CachedFds /\ fd \in CachedFds') =>
              /\ \A n \in DOMAIN ring' : n.fd # fd
              /\ \E id \in OccupiedIds :
                    LET p == Pair(State, id)
                    IN /\ p.backend_fd = fd
                       /\ ~p.had_error
                       /\ p.pump_client_to_backend.bytes_ready_to_send = 0
                       /\ p.pump_backend_to_client.bytes_ready_to_send = 0]_vars

\* the backend descriptor of the finished record is the only one cached
OnlyFinishedBackendCached ==
    /\ pairs = <<<<>>>>
    /\ \E a \in DOMAIN cache : cache[a] = <<2>>
    /\ 2 \in fdOpen
    /\ \A n \in DOMAIN ring : n.fd # 2
----------------------------------------------------------------------------
(* The loop of run_worker with its queues.  What a handler pushes stays in *)
(* the submission queue until submit_and_wait hands it to the kernel; the  *)
(* kernel completes what it holds at any time and puts (tag, res) in the   *)
(* completion queue; the loop drains that queue into the batch events and  *)
(* dispatches the batch in order.  ring holds the submissions not yet      *)
(* completed, queued or in the kernel.                                     *)

Fresh(e) == [e EXCEPT !.stale = FALSE]

\* the submissions of a ring whatever their staleness, counted
Keys(b) ==
    [k \in {Fresh(e) : e \in DOMAIN b} |->
        Copies(b, k) + Copies(b, [k EXCEPT !.stale = TRUE])]

\* the kernel holds the submission: it is not one of those still queued
InKernel(e) == Keys(ring)[Fresh(e)] > Copies(observed.sq, Fresh(e))

\* the completion queue has twice the entries of the submission queue
cq_entries(entries) == 2 * entries

\* WorkerConfig of the loop: initial_accepts up to MaxAccepts; the listening
\* socket has LoopClients connections to hand out, and the slab of the loop
\* grows to LoopSlab slots
MaxAccepts == 2
LoopClients == 1
LoopSlab == 3

InitLoop ==
    \E ring_size \in 1..MaxRingSize, initial_accepts \in 1..MaxAccepts :
        LET s == Prime(Empty, initial_accepts)
            s1 == IF initial_accepts > sq_entries(ring_size) THEN Panic(s) ELSE s
        IN /\ pairs = s1.pairs
           /\ freelist = s1.freelist
           /\ cache = s1.cache
           /\ ring = s1.ring
           /\ counter = s1.counter
           /\ backends = s1.backends
           /\ socks = s1.socks
           /\ fdOpen = s1.fdOpen
           /\ panicked = s1.panicked
           /\ observed = [call |-> "run_worker", pc |-> "submit_and_wait",
                          entries |-> sq_entries(ring_size),
                          sq |-> Keys(s1.ring), cq |-> <<>>, events |-> <<>>]
           /\ initialized = TRUE
           /\ rwlock = Unlocked
           /\ threads = [t \in Threads |-> IdleThread]

\* the kernel posts the completion of a submission it holds
Post(s, sqe, res) ==
    /\ ~panicked
    /\ InKernel(sqe)
    /\ Len(observed.cq) < cq_entries(observed.entries)
    /\ CommitReactor(Release(s))
    /\ observed' = [observed EXCEPT !.cq = Append(@, [tag |-> sqe.tag, res |-> res])]
    /\ UNCHANGED <<initialized, rwlock, threads>>

KernelAcceptFail ==
    \E sqe \in Pending("Accept", 0) : Post(Remove(State, sqe), sqe, -1)

KernelAccept ==
    \E sqe \in Pending("Accept", 0), req \in ClientStreams :
        /\ Len(socks) < LoopClients
        /\ LET s1 == NewSocket(Remove(State, sqe), ClientSock(req))
           IN /\ Len(worker_dispatch(s1, sqe.tag, Len(socks) + 1, NoEnv).pairs) <= LoopSlab
              /\ Post(s1, sqe, Len(socks) + 1)

KernelRecvHeaders ==
    \E sqe \in Pending("RecvHeaders", 0) :
        \E res \in RecvResults(State, sqe), landed \in Landings(sqe) :
            Post(KernelRecv(Remove(State, sqe), sqe, res, landed), sqe, res)

KernelNop ==
    \E sqe \in Pending("ConnectBackend", 0) : Post(Remove(State, sqe), sqe, 0)

KernelRecvPump ==
    \E dir \in {ClientToBackend, BackendToClient} :
        \E sqe \in Pending("Recv", dir) :
            \E res \in RecvResults(State, sqe), landed \in Landings(sqe) :
                Post(KernelRecv(Remove(State, sqe), sqe, res, landed), sqe, res)

KernelSendPump ==
    \E dir \in {ClientToBackend, BackendToClient} :
        \E sqe \in Pending("Send", dir) :
            \E res \in SendResults(State, sqe) :
                Post(KernelSend(Remove(State, sqe), sqe, res), sqe, res)

\* ring.submit_and_wait(1): everything queued goes to the kernel, and the
\* call returns once a completion is there
submit_and_wait(lp) == [lp EXCEPT !.sq = EmptyBag, !.pc = "waiting"]

LoopSubmit ==
    /\ ~panicked
    /\ observed.pc = "submit_and_wait"
    /\ observed' = submit_and_wait(observed)
    /\ UNCHANGED <<pairs, freelist, cache, ring, counter, backends, socks,
                   fdOpen, panicked, initialized, rwlock, threads>>

\* submit_and_wait returns and the completion queue is drained into events
LoopDrain ==
    /\ ~panicked
    /\ observed.pc = "waiting"
    /\ observed.cq # <<>>
    /\ observed' = [observed EXCEPT !.events = observed.cq, !.cq = <<>>,
                                    !.pc = "dispatch"]
    /\ UNCHANGED <<pairs, freelist, cache, ring, counter, backends, socks,
                   fdOpen, panicked, initialized, rwlock, threads>>

\* what the handler of a completion can get from the calls it makes
HandlerEnvs(s, tag) ==
    LET d == unpack_user_data(tag)
    IN IF d.op.name = "RecvHeaders" THEN ConnectEnvs(s)
       ELSE IF d.op.name = "ConnectBackend"
       THEN {[NoEnv EXCEPT !.err_code = e] : e \in SoErrors(s, d.id)}
       ELSE {NoEnv}

\* the next event of the batch is dispatched; its pushes join the
\* submission queue, and a push into a full queue panics
LoopDispatch ==
    /\ ~panicked
    /\ observed.pc = "dispatch"
    /\ observed.events # <<>>
    /\ \E env \in HandlerEnvs(State, Head(observed.events).tag) :
          LET ev == Head(observed.events)
              s1 == worker_dispatch(State, ev.tag, ev.res, env)
              sq1 == observed.sq (+) (Keys(s1.ring) (-) Keys(ring))
              s2 == IF BagCardinality(sq1) > observed.entries THEN Panic(s1) ELSE s1
          IN /\ CommitReactor(Release(s2))
             /\ observed' = [observed EXCEPT
                               !.sq = sq1,
                               !.events = Tail(@),
                               !.pc = IF Len(observed.events) = 1
                                      THEN "submit_and_wait" ELSE "dispatch"]
    /\ UNCHANGED <<initialized, rwlock, threads>>

NextLoop ==
    \/ KernelAcceptFail
    \/ KernelAccept
    \/ KernelRecvHeaders
    \/ KernelNop
    \/ KernelRecvPump
    \/ KernelSendPump
    \/ LoopSubmit
    \/ LoopDrain
    \/ LoopDispatch

SpecLoop == InitLoop /\ [][NextLoop]_vars

\* LoopDispatch is enabled: every handler has an answer from its calls
DispatchEnabled ==
    ~panicked /\ observed.pc = "dispatch" /\ observed.events # <<>>

\* The worker thread keeps running: weak fairness of the three steps of the
\* loop, that of LoopDispatch written with its enabling condition.  The
\* kernel owes no completion.
SpecLoopFair ==
    /\ SpecLoop
    /\ WF_vars(LoopSubmit)
    /\ WF_vars(LoopDrain)
    /\ ([]<>(~DispatchEnabled) \/ []<><<LoopDispatch>>_vars)

(* C36.  The worker is never waiting in submit_and_wait with a submission  *)
(* still queued; when an iteration leaves submit_and_wait every submission *)
(* the handlers of the batch before queued is with the kernel; and every   *)
(* completion placed in the completion queue is eventually dispatched.     *)

NoWaitWithQueuedWork == observed.pc = "waiting" => observed.sq = EmptyBag

QueuedSubmittedByNextIteration ==
    [][(observed.pc = "submit_and_wait" /\ observed'.pc # "submit_and_wait")
          => \A e \in DOMAIN ring' : InKernel(e)']_vars

\* a completion leaves the completion queue only when the whole queue is
\* drained into the batch, and leaves the batch only as the event dispatched
TakenInOrder ==
    [][/\ (observed'.cq # observed.cq /\ Len(observed'.cq) <= Len(observed.cq))
            => (observed'.cq = <<>> /\ observed'.events = observed.cq)
       /\ (observed'.events # observed.events /\ observed.events # <<>>)
            => observed'.events = Tail(observed.events)]_vars

EveryCompletionDispatched ==
    /\ TakenInOrder
    /\ (observed.cq # <<>>) ~> (observed.cq = <<>>)
    /\ (observed.events # <<>>) ~> (observed.events = <<>>)

LoopForwardProgress ==
    /\ []NoWaitWithQueuedWork
    /\ QueuedSubmittedByNextIteration
    /\ EveryCompletionDispatched
----------------------------------------------------------------------------
(* C37.  No handler closes a descriptor that is not open: whatever         *)
(* completion the ring holds and whatever its result, close(2) answers     *)
(* EBADF to none of the closes of its handler (finish_request, teardown,   *)
(* recycle_slot_only, the cache's return_connection); and every descriptor *)
(* in the idle cache is open.                                              *)

\* the state the handler of the completion starts from
Completed(sqe, res, landed) ==
    IF OpOf(sqe).name \in {"RecvHeaders", "Recv"}
    THEN KernelRecv(Remove(State, sqe), sqe, res, landed)
    ELSE IF OpOf(sqe).name = "Send" THEN KernelSend(Remove(State, sqe), sqe, res)
    ELSE Remove(State, sqe)

\* the results the kernel can give the submission
ResultsOf(sqe) ==
    IF OpOf(sqe).name \in {"RecvHeaders", "Recv"} THEN RecvResults(State, sqe)
    ELSE IF OpOf(sqe).name = "Send" THEN SendResults(State, sqe)
    ELSE IF OpOf(sqe).name = "Accept" THEN {-1}
    ELSE {0}

NoDoubleClose ==
    /\ \A sqe \in DOMAIN ring :
          \A res \in ResultsOf(sqe), landed \in Landings(sqe),
             env \in HandlerEnvs(State, sqe.tag) :
              dispatch(Completed(sqe, res, landed), sqe.tag, res, env).ebadf = {}
    /\ CachedFds \subseteq fdOpen

\* finish_request has cached the backend, the slot has been recycled, and
\* only the client descriptor is closed
RecycledAfterCaching ==
    /\ pairs = <<<<>>>>
    /\ freelist = <<>>
    /\ 2 \in CachedFds
    /\ fdOpen = {2}
----------------------------------------------------------------------------
(* C38.  teardown(id) of an id whose slot is vacant, or that is beyond the *)
(* slab, changes nothing: nothing is closed and the free-list is as it     *)
(* was.  The free-list holds no id twice, and every id in it names a       *)
(* vacant slot.                                                            *)

TeardownIdempotent ==
    /\ \A id \in SlotIds : ~Occupied(pairs, id) => teardown(State, id) = State
    /\ \A i, j \in 1..Len(freelist) : i # j => freelist[i] # freelist[j]
    /\ \A i \in 1..Len(freelist) : ~Occupied(pairs, freelist[i])

\* slot 0 has been torn down and its id returned, slot 1 is occupied, and
\* the id after them is beyond the slab
TornDownBesideOccupied ==
    /\ Len(pairs) = 2
    /\ freelist = <<0>>
    /\ ~Occupied(pairs, 0)
    /\ Occupied(pairs, 1)
    /\ teardown(teardown(State, 0), 2) = State
----------------------------------------------------------------------------
(* The loop started on an empty registry: init_backend_pool was given no   *)
(* backend.  The idle cache holds nothing, or one idle connection to the   *)
(* fallback address.                                                       *)

InitFallback ==
    \E idle \in BOOLEAN :
        LET s0 == [Prime(Empty, InitialAccepts) EXCEPT !.backends = <<>>]
            s == IF idle
                 THEN return_connection(NewSocket(s0, BackendSock(<<>>, 0)),
                                        FALLBACK_PORT, 1)
                 ELSE s0
        IN /\ pairs = s.pairs
           /\ freelist = s.freelist
           /\ cache = s.cache
           /\ ring = s.ring
           /\ counter = s.counter
           /\ backends = s.backends
           /\ socks = s.socks
           /\ fdOpen = s.fdOpen
           /\ panicked = s.panicked
           /\ RegistryReady

SpecFallback == InitFallback /\ [][Next]_vars

(* C39.  When a RecvHeaders completion completes the headers while the     *)
(* registry is empty, select_backend gives the fallback address            *)
(* 127.0.0.1:8081 and the record is not torn down for that: it takes the   *)
(* idle connection the cache holds for that address and streams on it, or, *)
(* the cache holding none, a socket is connected to that address and the   *)
(* ConnectBackend no-op is queued (socket and connect succeeding).         *)

EmptyRegistryRouted ==
    \A sqe \in Pending("RecvHeaders", 0) :
        \A res \in RecvResults(State, sqe), landed \in Landings(sqe),
           env \in ConnectEnvs(State) :
            LET id == IdOf(sqe)
                s0 == Completed(sqe, res, landed)
                s1 == dispatch(s0, sqe.tag, res, env)
                idle == Cached(s0.cache, FALLBACK_PORT)
            IN (backends = <<>> /\ Verdict(s0, id, res) = "Complete") =>
                  /\ select_backend(s0).addr = FALLBACK_PORT
                  /\ (idle # <<>> \/ env.outcome = "ok") =>
                        /\ Occupied(s1.pairs, id)
                        /\ ~Pair(s1, id).had_error
                        /\ Pair(s1, id).backend_address = <<FALLBACK_PORT>>
                        /\ id \notin Range(s1.freelist)
                  /\ idle # <<>> =>
                        /\ Pair(s1, id).backend_fd = Head(idle)
                        /\ Cached(s1.cache, FALLBACK_PORT) = Tail(idle)
                        /\ \E n \in DOMAIN s1.ring :
                              /\ n.tag = pack_user_data(id, Op("Recv", BackendToClient))
                              /\ n.fd = Head(idle)
                  /\ (idle = <<>> /\ env.outcome = "ok") =>
                        /\ Pair(s1, id).backend_fd = Len(s0.socks) + 1
                        /\ \E n \in DOMAIN s1.ring :
                              n.tag = pack_user_data(id, Op("ConnectBackend", 0))

\* with the registry empty, one record streams on the connection the cache
\* held for the fallback address
BorrowedForFallback ==
    /\ backends = <<>>
    /\ Cached(cache, FALLBACK_PORT) = <<>>
    /\ \E id \in OccupiedIds :
          /\ Pair(State, id).backend_address = <<FALLBACK_PORT>>
          /\ Pair(State, id).backend_fd = 1
          /\ Pair(State, id).client_fd >= 1
====
